---- MODULE Spec2Model ----
(***************************************************************************)
(* RabbitMQClient (src/src/rabbit.ts): the connection supervisor, the      *)
(* circuit breaker, the channel pool and the manual settlement helpers,    *)
(* as a state machine whose steps are the stretches of code between two    *)
(* awaits of a driver operation or a timer.                                *)
(***************************************************************************)
EXTENDS Integers, Sequences, FiniteSets, Bags, TLC

\* ------------------------------------------------------------------ bounds
MaxConns == 2          \* Spec: driver connections that may ever be opened
MaxChans == 4          \* Spec: driver channels that may ever be created
ConnsMaxConns == 3     \* SpecConns: driver connections that may ever be opened
ConnsMaxChans == 2     \* SpecConns: driver channels that may ever be created
MaxTasks == 2          \* Spec: connect / reconnect / shutdown activations alive at once
PoolMaxConns == 2      \* SpecPool: driver connections, the first one included
PoolMaxChans == 5      \* SpecPool: driver channels, those of the first connection included
PoolMaxTasks == 1      \* SpecPool: reconnect activations alive at once
StaleMaxConns == 2     \* SpecStale: driver connections, the first one included
StaleMaxChans == 5     \* SpecStale: driver channels, those of the first connection included
StaleMaxTasks == 2     \* SpecStale: reconnect activations alive at once
StaleMaxPoolTasks == 1 \* SpecStale: getChannel activations alive at once
MaxPoolTasks == 2      \* getChannel / channel-recovery activations alive at once
NumCallers == 2        \* application tasks that lease pool channels
MaxMsgs == 1           \* messages delivered to a manualAck consumer
MaxActionCalls == 2    \* actions.* calls a handler makes for one message
MaxPromises == 2       \* promises that connect() may ever create
MaxAttempts == 1       \* cap of reconnectAttempts when maxReconnectAttempts = -1
LifeMaxConns == 2      \* SpecLife: driver connections, the first one included
LifeMaxChans == 4      \* SpecLife: driver channels, those of the first connection included
LifeMaxTasks == 2      \* SpecLife: connect / reconnect / shutdown / close activations at once
MaxShutdownCalls == 3  \* SpecLife: gracefulShutdown() calls the run tells apart
SendMaxConns == 1      \* SpecSend: connections the driver can open
SendMaxChans == 2      \* SpecSend: channels the driver can create
SendMaxTasks == 1      \* SpecSend: reconnect activations at once
SendMaxPublishes == 3  \* SpecSend: publish() / sendToQueue() calls that reach the driver
RejectMaxConns == 2    \* SpecReject: driver connections, the first one included
RejectMaxChans == 4    \* SpecReject: driver channels, those of the first connection included
RejectMaxTasks == 2    \* SpecReject: reconnect activations at once
RejectMaxPublishes == 2 \* SpecReject: publish() calls that reach the driver
MaxBatchSize == 2      \* SpecBatch: messages of a batch
MaxBatches == 2        \* SpecBatch: publishBatch() calls
BatchMaxConns == 2     \* SpecBatch: driver connections, the first one included
BatchMaxChans == 4     \* SpecBatch: driver channels, those of the first connection included
BatchMaxTasks == 2     \* SpecBatch: reconnect activations at once
MsgMaxConns == 2       \* SpecMsgs: driver connections, the first one included
MsgMaxChans == 4       \* SpecMsgs: driver channels, those of the first connection included
MsgMaxTasks == 1       \* SpecMsgs: reconnect / shutdown activations at once
LeaseMaxConns == 1     \* SpecLease: connections the driver can open
LeaseMaxChans == 4     \* SpecLease: channels the driver can create
LeaseMaxPoolTasks == 2 \* SpecLease: getChannel / cleanup activations at once
DrainMaxConns == 1     \* SpecDrain: connections the driver can open
DrainMaxChans == 2     \* SpecDrain: channels the driver can create
DrainMaxTasks == 2     \* SpecDrain: shutdown / reconnect activations at once
DrainMaxCalls == 2     \* SpecDrain: gracefulShutdown() calls
DrainMaxPublishes == 1 \* SpecDrain: publish() calls that reach the driver
DrainMaxDeliveries == 1 \* SpecDrain: messages delivered to the consumer
ApiMaxTasks == 1       \* SpecApi: connect / reconnect / shutdown / close activations at once
ApiMaxPublishes == 1   \* SpecApi: publish() calls that reach the driver
MaxPublishes == 2      \* SpecMsg: publish() calls that reach the driver
MaxDeliveries == 1     \* SpecMsg: messages delivered to an auto-settling consumer
NumUrls == 1           \* configured cluster nodes
MaxSharedCalls == 5    \* SpecShared: initializeSharedClient() calls
HealMaxConns == 3      \* SpecHeal: connections
HealMaxChans == 6      \* SpecHeal: channels
HealMaxTasks == 2      \* SpecHeal: supervisor activations
HealMaxPoolTasks == 1  \* SpecHeal: activations of the channel sweep
HealMaxAttempts == 2   \* SpecHeal: cap of reconnectAttempts
BreakerMaxConns == 2   \* SpecBreaker: connections
BreakerMaxChans == 4   \* SpecBreaker: channels
BreakerMaxTasks == 1   \* SpecBreaker: supervisor activations
RetryMaxConns == 2     \* SpecRetry: connections
RetryMaxChans == 4     \* SpecRetry: channels
RetryMaxTasks == 2     \* SpecRetry: supervisor activations
RetryMaxAttempts == 3  \* SpecRetry: cap of reconnectAttempts
MaxClusterAttempts == 3 \* SpecCluster: connect and reconnect attempts
FailoverMaxAttempts == 2 \* SpecFailover: connect and reconnect attempts
MaxFailureCount == 3   \* SpecCluster: the largest failureCount of a node
JitterSteps == 4       \* Math.random() is k / JitterSteps for k in 0..JitterSteps-1
MaxBackoffAttempts == 7 \* SpecBackoff: the largest reconnectAttempts of a delay

\* ------------------------------------------------------- program constants
MAXIMUM_INITIAL_CONNECTION_RETRIES == 5
UnhealthyAfter == 3              \* a node is unhealthy from its third failure on
MIN_RECONNECT_DELAY == 1000      \* CONSTANTS, in ms
MAX_RECONNECT_DELAY == 60000     \* CONSTANTS, in ms
DefaultReconnectDelay == 5000    \* the constructor's default of options.reconnectDelay
baseDelayFallback == 1000        \* calculateReconnectDelay(): reconnectDelay || 1000
maxDelay == 60000                \* calculateReconnectDelay(): the cap, in ms
JitterPercent == 20              \* calculateReconnectDelay(): jitter of +-20%
maxWaitTime == 3000    \* gracefulShutdown(): the cap of the drain wait, in ms
checkInterval == 100   \* waitForInFlightMessages(): the delay between two checks, in ms

VARIABLES
  \* options (fixed at construction)
  options,              \* [maxChannels, failureThreshold, maxReconnectAttempts, maxRetries]
  \* fields of RabbitMQClient
  connection,           \* this.connection: 0 = null, else a driver connection
  defaultChannel,       \* this.defaultChannel: 0 = null, else a driver channel
  reconnecting,         \* this.reconnecting
  connectionPromise,    \* this.connectionPromise: 0 = null, else an index of promises
  reconnectAttempts,    \* this.reconnectAttempts
  channels,             \* this.channelPool.channels (0 = a hole of the array)
  inUse,                \* this.channelPool.inUse
  circuitBreaker,       \* [failures, isOpen, lastFailure]; lastFailure is "null", "set"
                        \* or, once resetTimeout has passed since that date, "elapsed"
  shutdownInProgress,   \* this.shutdownInProgress
  intervalTimers,       \* [health, sweep]: registered interval timers by kind
  \* what the shutdown operations did so far
  terminated,           \* "close" / "shutdown": that call has returned, no connect() since
  shutdownLog,          \* the gracefulShutdown() calls and the driver objects they closed
  emitted,              \* how often each event of reconnect() was emitted, and
                        \* metrics.reconnections, in the runs that count them
  \* the driver (amqplib)
  limits,               \* [conns, chans, tasks, poolTasks, shutdownCalls, publishes,
                        \* deliveries]: what the run may use up, and how many
                        \* gracefulShutdown() calls it counts; saturate: the
                        \* attempt counter stays at its cap instead of stopping
                        \* the loop there
  nconn,                \* connections opened so far; they are 1..nconn
  connOpen,             \* the connections that are open
  nchan,                \* channels created so far; they are 1..nchan
  chanConn,             \* channel -> the connection it was created on
  chanClosed,           \* the channels whose closed flag is set
  chanRecovered,        \* the channels whose 'error' listener is handleChannelError
  \* the application
  held,                 \* caller -> the pool channels getChannel() returned to it
  released,             \* caller -> the channel of the lease it released last (0: none)
  \* control state
  promises,             \* the promises connect() created: pending/resolved/rejected
  tasks,                \* suspended async activations: a bag of frames
  lastCall,             \* the API call made in the latest step, if any
  \* manual settlement (createMessageActions)
  acknowledged,         \* message -> the closure's acknowledged flag
  settlements,          \* message -> the settlement calls made on the default channel
  actionCalls,          \* message -> the actions.* calls the handler made, in order
  \* messages
  metrics,              \* [messagesSent, messagesReceived]
  publishes,            \* publish() / sendToQueue() call -> [op, channel, state, timer,
                        \* confirmed]
  deliveries,           \* auto-settled delivery -> [channel, events, at, settlements]
  batches,              \* publishBatch() call -> [size, handed, succeeded, channel, state]
  \* the reconnect delay
  backoff,              \* [reconnectDelay, exponentialBackoff, attempts, jitter, delay]: a
                        \* call of calculateReconnectDelay() and the delay it returned
  \* the node registry
  cluster,              \* [failoverStrategy, currentUrlIndex, activeNodes, conn, sweep,
                        \* budget, started, logging, log, reachable]: the cursor, the
                        \* Map of node statuses in insertion order, the positions of
                        \* the connecting client and of checkClusterNodesHealth(), the
                        \* number of connect and reconnect attempts allowed and
                        \* started, where logging is on the driver connects of each
                        \* attempt, and whether a node has become reachable for good
  \* the shared client (shared-client.ts)
  shared                \* [sharedClient, isInitializing, initializationPromise, clients,
                        \* calls]: the module's three variables (0: null), the state
                        \* of connect() of each client created, and the
                        \* initializeSharedClient() calls made

clientVars == <<connection, defaultChannel, reconnecting, connectionPromise,
                reconnectAttempts, channels, inUse, circuitBreaker,
                shutdownInProgress, intervalTimers, promises, tasks>>
historyVars == <<terminated, shutdownLog, emitted>>
driverVars == <<nconn, connOpen, nchan, chanConn, chanClosed>>
poolVars == <<chanRecovered, held, released>>
ackVars == <<acknowledged, settlements, actionCalls>>
msgVars == <<metrics, publishes, deliveries, batches>>
extVars == <<backoff, cluster, shared>>
modelVars == <<options, limits, clientVars, historyVars, driverVars, poolVars, lastCall,
               ackVars, msgVars>>
vars == <<options, limits, clientVars, historyVars, driverVars, poolVars, lastCall, ackVars,
          msgVars, extVars>>

\* ----------------------------------------------------------------- helpers
\* A suspended activation: the function it runs (kind), the await it is
\* suspended at (pc) and its locals: the promise it settles (p), a loop counter
\* (n), the driver object its pending call was made on (cn) and the array it
\* iterates (snap).
Frame(kind, pc, p, n, cn, snap) ==
  [kind |-> kind, pc |-> pc, p |-> p, n |-> n, cn |-> cn, snap |-> snap]
Frames == BagToSet(tasks)
SupervisorKinds == {"establish", "reconnect", "shutdown", "close"}
Count(tk, kinds) ==
  BagCardinality([f \in {g \in BagToSet(tk) : g.kind \in kinds} |-> tk[f]])
HasFree(tk) == Count(tk, SupervisorKinds) < limits.tasks
HasFreePool(tk, k) ==
  Count(tk, {f.kind : f \in BagToSet(tk)} \ SupervisorKinds) + k <= limits.poolTasks
Callers == 1..NumCallers
Spawn(tk, f) == tk (+) SetToBag({f})
Finish(tk, f) == tk (-) SetToBag({f})
Resume(tk, f, g) == Spawn(Finish(tk, f), g)
Members(seq) == {seq[i] : i \in 1..Len(seq)} \ {0}

isConnectionOpen(c) == c # 0 /\ c \in connOpen
isChannelOpen(ch) == ch # 0 /\ ch \notin chanClosed

\* The client's fields as one value, so that a synchronous stretch of code is
\* a function from the fields before it to the fields after it.
Cur ==
  [connection |-> connection, defaultChannel |-> defaultChannel,
   reconnecting |-> reconnecting, connectionPromise |-> connectionPromise,
   reconnectAttempts |-> reconnectAttempts, channels |-> channels, inUse |-> inUse,
   circuitBreaker |-> circuitBreaker, shutdownInProgress |-> shutdownInProgress,
   intervalTimers |-> intervalTimers, terminated |-> terminated,
   shutdownLog |-> shutdownLog, emitted |-> emitted, promises |-> promises, tasks |-> tasks,
   ok |-> TRUE]
Commit(s) ==
  /\ s.ok
  /\ connection' = s.connection
  /\ defaultChannel' = s.defaultChannel
  /\ reconnecting' = s.reconnecting
  /\ connectionPromise' = s.connectionPromise
  /\ reconnectAttempts' = s.reconnectAttempts
  /\ channels' = s.channels
  /\ inUse' = s.inUse
  /\ circuitBreaker' = s.circuitBreaker
  /\ shutdownInProgress' = s.shutdownInProgress
  /\ intervalTimers' = s.intervalTimers
  /\ terminated' = s.terminated
  /\ shutdownLog' = s.shutdownLog
  /\ emitted' = s.emitted
  /\ promises' = s.promises
  /\ tasks' = s.tasks

\* ------------------------------------------------- synchronous code stretches

\* resetCircuitBreakerState()
resetCircuitBreakerState(s) ==
  [s EXCEPT !.circuitBreaker = [failures |-> 0, isOpen |-> FALSE, lastFailure |-> "null"]]

\* cleanupConnectionState()
cleanupConnectionState(s) ==
  [s EXCEPT !.reconnecting = FALSE, !.connectionPromise = 0]

\* A variant that opens the breaker only above the threshold.
handleConnectionErrorAbove(s, f) ==
  LET n == s.circuitBreaker.failures + 1
      b == [failures |-> n, isOpen |-> (n > options.failureThreshold), lastFailure |-> "set"]
      c == cleanupConnectionState([s EXCEPT !.circuitBreaker = b])
  IN [c EXCEPT !.promises[f.p] = "rejected", !.tasks = Finish(@, f)]

\* handleConnectionError(error, reject): count the failure, open the breaker at
\* the threshold, clean the connection state up and reject the caller's promise.
handleConnectionError(s, f) ==
  LET n == s.circuitBreaker.failures + 1
      b == [failures |-> n, isOpen |-> (n >= options.failureThreshold), lastFailure |-> "set"]
      c == cleanupConnectionState([s EXCEPT !.circuitBreaker = b])
  IN [c EXCEPT !.promises[f.p] = "rejected", !.tasks = Finish(@, f)]

\* this.emit(event), as far as the run counts the events.
emit(s, event) ==
  IF limits.eventLog = 0 THEN s ELSE [s EXCEPT !.emitted[event] = @ + 1]

\* The start of an iteration of reconnect()'s loop, when the frame g is there:
\* 'reconnecting' is emitted before the delay is awaited.
loopStarted(s, g) == IF g.pc = "sleep" THEN emit(s, "reconnecting") ELSE s

\* A variant of the success path of reconnect() that keeps the attempt counter.
reconnectSucceededKeepingAttempts(s) ==
  [emit(emit(s, "reconnections"), "reconnected") EXCEPT !.reconnecting = FALSE]

\* reconnect() after setupChannels() returned: the attempt counter is reset,
\* metrics.reconnections grows, 'reconnected' is emitted and the flag cleared.
reconnectSucceeded(s) ==
  [emit(emit(s, "reconnections"), "reconnected") EXCEPT
     !.reconnectAttempts = 0, !.reconnecting = FALSE]

\* The attempts of its loop that failed, which the frame of a reconnect()
\* counts in p in the runs that count the events.
failedAttempts(f) == IF limits.eventLog = 0 THEN 0 ELSE f.p + 1

\* The catch block of reconnect()'s loop and the loop test that follows it.
reconnectAttemptFailed(s, f, open) ==
  LET a == IF limits.saturate /\ s.reconnectAttempts = limits.attempts
           THEN limits.attempts ELSE s.reconnectAttempts + 1 IN
  IF a > limits.attempts THEN [s EXCEPT !.ok = FALSE]
  ELSE IF options.maxReconnectAttempts # -1 /\ a >= options.maxReconnectAttempts
       THEN \* emit reconnectFailed; throw; the outer catch clears the flag
            [emit(s, "reconnectFailed") EXCEPT
               !.reconnectAttempts = a, !.reconnecting = FALSE, !.tasks = Finish(@, f)]
       ELSE IF s.connection # 0 /\ s.connection \in open
            THEN \* while (!isConnectionOpen(...)) is false: the loop just ends
                 [s EXCEPT !.reconnectAttempts = a, !.tasks = Finish(@, f)]
            ELSE [emit(s, "reconnecting") EXCEPT
                     !.reconnectAttempts = a,
                     !.tasks = Resume(@, f, Frame("reconnect", "sleep",
                                                  failedAttempts(f), 0, 0, <<>>))]

\* What the caller of setupChannels() does when it throws.
setupFailed(s, f, open) ==
  IF f.kind = "establish" THEN handleConnectionError(s, f)
  ELSE reconnectAttemptFailed(s, f, open)

\* What the caller of setupChannels() does when it returns.
setupSucceeded(s, f) ==
  IF f.kind = "establish"
  THEN LET c == cleanupConnectionState(resetCircuitBreakerState(s))
       IN [c EXCEPT !.promises[f.p] = "resolved", !.tasks = Finish(@, f)]
  ELSE [reconnectSucceeded(s) EXCEPT !.tasks = Finish(@, f)]

\* setupConnectionMonitoring(), setupConnectionHandlers() and the start of
\* setupChannels(): one more health timer, then createConfirmChannel() is awaited.
setupConnection(s, f) ==
  IF s.connection = 0
  THEN setupFailed(s, f, {})
  ELSE [s EXCEPT !.intervalTimers.health = @ + 1,
                 !.tasks = Resume(@, f, [f EXCEPT !.pc = "defaultChannel", !.n = 0,
                                                  !.cn = s.connection])]

\* initializeChannelPool(): the next createConfirmChannel() on this.connection,
\* or the end of the loop, the recovery timer and the return of setupChannels().
initializeChannelPool(s, f, i, open) ==
  IF i < options.maxChannels
  THEN IF s.connection = 0
       THEN setupFailed(s, f, open)
       ELSE [s EXCEPT !.tasks = Resume(@, f, [f EXCEPT !.pc = "prefill", !.n = i,
                                                        !.cn = s.connection])]
  ELSE setupSucceeded([s EXCEPT !.intervalTimers.sweep = @ + 1], f)

\* forceCleanup() once the pool has been emptied: the next close it awaits.
forceCleanupFrom(kind, dc, conn) ==
  IF dc # 0 THEN Frame(kind, "fc_default", 0, 0, dc, <<>>)
  ELSE IF conn # 0 THEN Frame(kind, "fc_conn", 0, 0, conn, <<>>)
  ELSE Frame(kind, "sleep", 0, 0, 0, <<>>)

\* reconnect() up to its first await.
reconnect(s) ==
  IF s.shutdownInProgress THEN s
  ELSE IF ~HasFree(s.tasks) THEN [s EXCEPT !.ok = FALSE]
  ELSE IF Members(s.channels) # {}
       THEN [s EXCEPT !.reconnecting = TRUE,
                      !.tasks = Spawn(@, Frame("reconnect", "fc_chan", 0, 0, 0, s.channels))]
       ELSE LET g == forceCleanupFrom("reconnect", s.defaultChannel, s.connection)
            IN [loopStarted(s, g) EXCEPT !.reconnecting = TRUE, !.channels = <<>>,
                                         !.inUse = {}, !.tasks = Spawn(@, g)]

\* handleError(): reconnect() unless the reconnecting flag is set.
handleError(s) == IF ~s.reconnecting THEN reconnect(s) ELSE s

\* The driver closes connection k and, with it, the channels created on it.
ConnClosed(k) ==
  /\ connOpen' = connOpen \ {k}
  /\ chanClosed' = chanClosed \cup {c \in 1..nchan : chanConn[c] = k}
  /\ UNCHANGED <<nconn, nchan, chanConn>>

\* --------------------------------------------------------------- connect()

\* The step of a timer, of a driver event or of a resumed activation makes
\* no API call.
NoCall == [op |-> "none", outcome |-> "none", promise |-> 0, channel |-> 0]

\* What the supervisor's steps leave alone.
supervisorFrame == <<options, limits, extVars, poolVars, ackVars, msgVars>>
NotACall == lastCall' = NoCall /\ UNCHANGED supervisorFrame

\* What a connect() call did and the promise it returned (0: it threw).
Call(outcome, promise) ==
  [op |-> "connect", outcome |-> outcome, promise |-> promise, channel |-> 0]

\* The executor of the promise connect() creates: the already-connected and
\* already-reconnecting exits, and otherwise the start of establishConnection()
\* up to its first await, the first amqplib.connect().
connectionExecutor(s) ==
  LET p == Len(s.promises) + 1 IN
  IF isConnectionOpen(s.connection)
  THEN [s |-> [s EXCEPT !.promises = Append(@, "resolved"), !.connectionPromise = p],
        call |-> Call("alreadyConnected", p)]
  ELSE IF s.reconnecting
       THEN [s |-> [s EXCEPT !.promises = Append(@, "rejected"), !.connectionPromise = p],
             call |-> Call("alreadyReconnecting", p)]
       ELSE IF ~HasFree(s.tasks)
            THEN [s |-> [s EXCEPT !.ok = FALSE], call |-> Call("none", 0)]
            ELSE [s |-> [s EXCEPT !.promises = Append(@, "pending"),
                                  !.connectionPromise = p,
                                  !.reconnecting = TRUE,
                                  !.tasks = Spawn(@, Frame("establish", "connecting",
                                                           p, 0, 0, <<>>))],
                  call |-> Call("started", p)]

\* A variant of connect() without the breaker test.
connectIgnoringBreaker(s) ==
  IF s.connectionPromise # 0
  THEN [s |-> s, call |-> Call("joined", s.connectionPromise)]
  ELSE connectionExecutor(s)

\* A variant of connect() that never returns the stored promise.
connectIgnoringPromise(s) ==
  IF s.circuitBreaker.isOpen
  THEN [s |-> s, call |-> Call("CircuitBreakerOpen", 0)]
  ELSE connectionExecutor(s)

\* connect(): the breaker test, the stored promise, and otherwise a new promise.
connect(s) ==
  IF s.circuitBreaker.isOpen
  THEN [s |-> s, call |-> Call("CircuitBreakerOpen", 0)]
  ELSE IF s.connectionPromise # 0
       THEN [s |-> s, call |-> Call("joined", s.connectionPromise)]
       ELSE connectionExecutor(s)

ConnectCall ==
  /\ LET r == connect(Cur) IN
       /\ Len(r.s.promises) <= MaxPromises
       /\ Commit([r.s EXCEPT !.terminated = "no"])
       /\ lastCall' = r.call
  /\ UNCHANGED <<driverVars, supervisorFrame>>

\* amqplib.connect() of establishConnection() resolved: this.connection is set,
\* monitoring and handlers are installed and setupChannels() starts.
EstablishConnected(f) ==
  /\ f \in Frames
  /\ f.kind = "establish" /\ f.pc = "connecting"
  /\ nconn < limits.conns
  /\ nconn' = nconn + 1
  /\ connOpen' = connOpen \cup {nconn + 1}
  /\ Commit(setupConnection([Cur EXCEPT !.connection = nconn + 1], f))
  /\ UNCHANGED <<nchan, chanConn, chanClosed>>
  /\ NotACall

\* The mark, kept in snap, of an establishConnection() that left its retry
\* loop with every amqplib.connect() of its own rejected.
exhausted == <<0>>

\* amqplib.connect() of establishConnection() rejected: the next URL is tried
\* until MAXIMUM_INITIAL_CONNECTION_RETRIES attempts have failed; then the
\* test of this.connection decides between the error path and the setup.
EstablishConnectFailed(f) ==
  /\ f \in Frames
  /\ f.kind = "establish" /\ f.pc = "connecting"
  /\ LET r == f.n + 1
         g == [f EXCEPT !.snap = exhausted]
     IN IF r < MAXIMUM_INITIAL_CONNECTION_RETRIES
        THEN Commit([Cur EXCEPT !.tasks = Resume(@, f, [f EXCEPT !.n = r])])
        ELSE Commit(setupConnection([Cur EXCEPT !.tasks = Resume(@, f, g)], g))
  /\ UNCHANGED <<driverVars>>
  /\ NotACall

\* --------------------------------------------------------- setupChannels()

\* createConfirmChannel() for the default channel resolved (the connection it
\* was called on is open): setupDefaultChannel(), then initializeChannelPool().
DefaultChannelCreated(f) ==
  /\ f \in Frames
  /\ f.pc = "defaultChannel"
  /\ f.cn \in connOpen
  /\ nchan < limits.chans
  /\ nchan' = nchan + 1
  /\ chanConn' = Append(chanConn, f.cn)
  /\ Commit(initializeChannelPool([Cur EXCEPT !.defaultChannel = nchan + 1], f, 0, connOpen))
  /\ UNCHANGED <<nconn, connOpen, chanClosed>>
  /\ NotACall

\* createConfirmChannel() for the default channel rejected.
DefaultChannelFailed(f) ==
  /\ f \in Frames
  /\ f.pc = "defaultChannel"
  /\ Commit(setupFailed(Cur, f, connOpen))
  /\ UNCHANGED <<driverVars>>
  /\ NotACall

\* createConfirmChannel() of initializeChannelPool() resolved: the channel is
\* pushed and the loop goes on.
PoolChannelCreated(f) ==
  /\ f \in Frames
  /\ f.pc = "prefill"
  /\ f.cn \in connOpen
  /\ nchan < limits.chans
  /\ nchan' = nchan + 1
  /\ chanConn' = Append(chanConn, f.cn)
  /\ Commit(initializeChannelPool([Cur EXCEPT !.channels = Append(@, nchan + 1)],
                                  f, f.n + 1, connOpen))
  /\ UNCHANGED <<nconn, connOpen, chanClosed>>
  /\ NotACall

\* createConfirmChannel() of initializeChannelPool() rejected.
PoolChannelFailed(f) ==
  /\ f \in Frames
  /\ f.pc = "prefill"
  /\ Commit(setupFailed(Cur, f, connOpen))
  /\ UNCHANGED <<driverVars>>
  /\ NotACall

\* -------------------------------------------------------------- reconnect()

\* forceCleanup(): the close() calls on the pool channels have settled (the loop
\* runs over the live array, so it reaches the channels pushed meanwhile); the
\* pool and the in-use set are emptied and the default channel is closed next.
ForceCleanupChannelsClosed(f) ==
  /\ f \in Frames
  /\ f.pc = "fc_chan"
  /\ chanClosed' = chanClosed \cup Members(f.snap) \cup Members(channels)
  /\ LET g == forceCleanupFrom(f.kind, defaultChannel, connection)
     IN Commit([loopStarted(Cur, g) EXCEPT !.channels = <<>>, !.inUse = {},
                                           !.tasks = Resume(@, f, g)])
  /\ UNCHANGED <<nconn, connOpen, nchan, chanConn>>
  /\ NotACall

\* forceCleanup(): close() of the default channel has settled; the field is
\* nulled and the connection is closed next.
ForceCleanupDefaultClosed(f) ==
  /\ f \in Frames
  /\ f.pc = "fc_default"
  /\ chanClosed' = chanClosed \cup {f.cn}
  /\ LET g == forceCleanupFrom(f.kind, 0, connection)
     IN Commit([loopStarted(Cur, g) EXCEPT !.defaultChannel = 0,
                                           !.tasks = Resume(@, f, g)])
  /\ UNCHANGED <<nconn, connOpen, nchan, chanConn>>
  /\ NotACall

\* forceCleanup(): close() of the connection has settled. A connection that was
\* still open emits 'close', whose handler calls reconnect() before the awaiting
\* code goes on; then this.connection is nulled and the loop starts sleeping.
ForceCleanupConnectionClosed(f) ==
  /\ f \in Frames
  /\ f.pc = "fc_conn"
  /\ LET k == f.cn
         e == IF k \in connOpen THEN reconnect(Cur) ELSE Cur
     IN /\ ConnClosed(k)
        /\ e.ok
        /\ Commit([emit(e, "reconnecting") EXCEPT
                     !.connection = 0,
                     !.tasks = Resume(@, f, Frame(f.kind, "sleep", 0, 0, 0, <<>>))])
  /\ NotACall

\* The backoff delay has elapsed: tryNextClusterNode() calls amqplib.connect()
\* for the first node.
ReconnectDelayElapsed(f) ==
  /\ f \in Frames
  /\ f.pc = "sleep"
  /\ Commit([Cur EXCEPT !.tasks = Resume(@, f, [f EXCEPT !.pc = "try", !.n = 1])])
  /\ UNCHANGED <<driverVars>>
  /\ NotACall

\* tryNextClusterNode(): a node accepted; reconnect() stores the connection,
\* installs handlers and monitoring and starts setupChannels().
NodeConnected(f) ==
  /\ f \in Frames
  /\ f.pc = "try"
  /\ nconn < limits.conns
  /\ nconn' = nconn + 1
  /\ connOpen' = connOpen \cup {nconn + 1}
  /\ Commit(setupConnection([Cur EXCEPT !.connection = nconn + 1], f))
  /\ UNCHANGED <<nchan, chanConn, chanClosed>>
  /\ NotACall

\* tryNextClusterNode(): a node refused; the next node is tried, and after the
\* last one the aggregate error fails the attempt.
NodeConnectFailed(f) ==
  /\ f \in Frames
  /\ f.pc = "try"
  /\ IF f.n < NumUrls
     THEN Commit([Cur EXCEPT !.tasks = Resume(@, f, [f EXCEPT !.n = @ + 1])])
     ELSE Commit(reconnectAttemptFailed(Cur, f, connOpen))
  /\ UNCHANGED <<driverVars>>
  /\ NotACall

\* ------------------------------------------------------ reconnect triggers

\* The driver reports a connection failure: 'error' and then 'close' are
\* emitted on the connection, and the handler of each calls reconnect()
\* (setupConnectionHandlers). A broker-side close emits 'close' alone.
ConnectionLost(k, withError) ==
  /\ k \in connOpen
  /\ ConnClosed(k)
  /\ Commit(IF withError THEN reconnect(reconnect(Cur)) ELSE reconnect(Cur))
  /\ NotACall

\* The default channel emits 'error' (setupDefaultChannel): reconnect().
DefaultChannelError ==
  /\ isChannelOpen(defaultChannel)
  /\ chanClosed' = chanClosed \cup {defaultChannel}
  /\ Commit(reconnect(Cur))
  /\ UNCHANGED <<nconn, connOpen, nchan, chanConn>>
  /\ NotACall

\* A tick of the health-check timer (setupConnectionMonitoring): healthCheck()
\* is false without an open connection and default channel, or when its probe
\* fails; then reconnect() unless the reconnecting flag is set.
HealthCheckTick(isHealthy) ==
  /\ intervalTimers.health > 0
  /\ isHealthy => (isConnectionOpen(connection) /\ isChannelOpen(defaultChannel))
  /\ Commit(IF ~isHealthy /\ ~reconnecting THEN reconnect(Cur) ELSE Cur)
  /\ UNCHANGED <<driverVars>>
  /\ NotACall

\* handleError(): an API operation that was started on a connection failed;
\* reconnect() unless the reconnecting flag is set.
HandleError ==
  /\ nconn > 0
  /\ Commit(handleError(Cur))
  /\ UNCHANGED <<driverVars>>
  /\ NotACall

\* ------------------------------------------------------- gracefulShutdown()

\* One more gracefulShutdown() call, as far as the run counts them.
countShutdownCall(s) ==
  [s EXCEPT !.shutdownLog.calls = IF @ < limits.shutdownCalls THEN @ + 1 ELSE @]

\* gracefulShutdown() calls close() on the open driver objects objs.
logClosed(s, objs) ==
  IF limits.shutdownCalls = 0 THEN s
  ELSE [s EXCEPT !.shutdownLog.closed = @ \cup objs,
                 !.shutdownLog.again = @ \cup (objs \cap s.shutdownLog.closed)]

\* gracefulShutdown() once the pool has been emptied: the next close it awaits,
\* or the finally block when nothing is left to close.
shutdownFrom(s, f, dc, conn) ==
  IF dc # 0
  THEN logClosed([s EXCEPT !.tasks = Resume(@, f, Frame("shutdown", "gs_default", 0, 0, dc, <<>>))],
                 IF dc \notin chanClosed THEN {<<"channel", dc>>} ELSE {})
  ELSE IF conn # 0
  THEN logClosed([s EXCEPT !.tasks = Resume(@, f, Frame("shutdown", "gs_conn", 0, 0, conn, <<>>))],
                 IF conn \in connOpen THEN {<<"connection", conn>>} ELSE {})
  ELSE [s EXCEPT !.shutdownInProgress = FALSE, !.terminated = "shutdown",
                 !.tasks = Finish(@, f)]

\* A call of an operation that takes no channel and returns no promise to
\* track: what it did.
ApiCall(op, outcome) == [op |-> op, outcome |-> outcome, promise |-> 0, channel |-> 0]

\* A variant of gracefulShutdown() without the test of the shutdown flag.
gracefulShutdownIgnoringFlag(s) ==
  IF ~HasFree(s.tasks) THEN [s EXCEPT !.ok = FALSE]
  ELSE [s EXCEPT !.shutdownInProgress = TRUE, !.reconnecting = FALSE,
                 !.intervalTimers = [health |-> 0, sweep |-> 0],
                 !.tasks = Spawn(@, Frame("shutdown", "gs_wait", 0, 0, 0, <<>>))]

\* gracefulShutdown() up to its first await. A call made while the flag is set
\* returns at once, through the finally block that clears the flag.
gracefulShutdown(s) ==
  IF s.shutdownInProgress
  THEN [s EXCEPT !.shutdownInProgress = FALSE]
  ELSE IF ~HasFree(s.tasks) THEN [s EXCEPT !.ok = FALSE]
  ELSE [s EXCEPT !.shutdownInProgress = TRUE, !.reconnecting = FALSE,
                 !.intervalTimers = [health |-> 0, sweep |-> 0],
                 !.tasks = Spawn(@, Frame("shutdown", "gs_wait", 0, 0, 0, <<>>))]

GracefulShutdownCall ==
  /\ Commit(countShutdownCall(gracefulShutdown(Cur)))
  /\ lastCall' = ApiCall("gracefulShutdown", IF shutdownInProgress THEN "returned" ELSE "started")
  /\ UNCHANGED <<driverVars, supervisorFrame>>

\* A variant of the drain wait without the cap.
inFlightWaitOverWithoutCap(sent, received, polls) == sent = received

\* waitForInFlightMessages(maxWaitTime): a check ends the wait when the cap has
\* elapsed or when as many messages were received as were sent.
inFlightWaitOver(sent, received, polls) ==
  polls * checkInterval >= maxWaitTime \/ sent = received

\* The checks that fit in the cap; the time elapsed is counted in checks, and no
\* further than the cap.
MaxPolls == maxWaitTime \div checkInterval

\* waitForInFlightMessages(): a check that finds messages in flight before the
\* cap; the next check is made checkInterval later.
ShutdownDrainPoll(f) ==
  /\ f \in Frames
  /\ f.pc = "gs_wait"
  /\ ~inFlightWaitOver(metrics.messagesSent, metrics.messagesReceived, f.n)
  /\ Commit([Cur EXCEPT !.tasks = Resume(@, f, [f EXCEPT !.n = IF @ < MaxPolls THEN @ + 1
                                                                ELSE @])])
  /\ UNCHANGED <<driverVars>>
  /\ NotACall

\* waitForInFlightMessages() has returned (after f.n checks that found messages
\* in flight): the open pool channels are closed.
ShutdownDrained(f) ==
  /\ f \in Frames
  /\ f.pc = "gs_wait"
  /\ inFlightWaitOver(metrics.messagesSent, metrics.messagesReceived, f.n)
  /\ LET open == {c \in Members(channels) : isChannelOpen(c)} IN
       IF open # {}
       THEN Commit(logClosed([Cur EXCEPT !.tasks = Resume(@, f, Frame("shutdown", "gs_chan",
                                                                 0, f.n, 0, channels))],
                             {<<"channel", c>> : c \in open}))
       ELSE Commit(shutdownFrom([Cur EXCEPT !.channels = <<>>, !.inUse = {}], f,
                                defaultChannel, connection))
  /\ UNCHANGED <<driverVars>>
  /\ NotACall

\* The close() calls on the pool channels have settled (the loop runs over the
\* live array): the pool is emptied.
ShutdownChannelsClosed(f) ==
  /\ f \in Frames
  /\ f.pc = "gs_chan"
  /\ chanClosed' = chanClosed \cup Members(f.snap) \cup Members(channels)
  /\ Commit(shutdownFrom([Cur EXCEPT !.channels = <<>>, !.inUse = {}], f,
                         defaultChannel, connection))
  /\ UNCHANGED <<nconn, connOpen, nchan, chanConn>>
  /\ NotACall

\* close() of the default channel has settled: the field is nulled.
ShutdownDefaultClosed(f) ==
  /\ f \in Frames
  /\ f.pc = "gs_default"
  /\ chanClosed' = chanClosed \cup {f.cn}
  /\ Commit(shutdownFrom([Cur EXCEPT !.defaultChannel = 0], f, 0, connection))
  /\ UNCHANGED <<nconn, connOpen, nchan, chanConn>>
  /\ NotACall

\* close() of the connection has settled. Closing an open connection emits
\* 'close' (its handler calls reconnect()) and the field is nulled; close() of a
\* closed connection throws and the field is kept. Then the finally block.
ShutdownConnectionClosed(f) ==
  /\ f \in Frames
  /\ f.pc = "gs_conn"
  /\ LET k == f.cn
         s == [Cur EXCEPT !.tasks = Finish(@, f)]
         e == IF k \in connOpen THEN [reconnect(s) EXCEPT !.connection = 0] ELSE s
     IN /\ ConnClosed(k)
        /\ Commit([e EXCEPT !.shutdownInProgress = FALSE, !.terminated = "shutdown"])
  /\ NotACall

\* ------------------------------------------------------------------ close()

\* close() once the pool has been emptied: the next close it awaits, or the
\* 'closed' event and the return.
closeFrom(s, dc, conn) ==
  IF dc # 0 THEN [s EXCEPT !.tasks = Spawn(@, Frame("close", "cl_default", 0, 0, dc, <<>>))]
  ELSE IF conn # 0
  THEN [s EXCEPT !.tasks = Spawn(@, Frame("close", "cl_conn", 0, 0, conn, <<>>))]
  ELSE [s EXCEPT !.terminated = "close"]

\* close() up to its first await: the reconnecting flag and the interval timers
\* are cleared and the open pool channels are closed.
close(s, closed) ==
  LET c == [s EXCEPT !.reconnecting = FALSE, !.intervalTimers = [health |-> 0, sweep |-> 0]]
  IN IF \E ch \in Members(s.channels) : ch \notin closed
     THEN [c EXCEPT !.tasks = Spawn(@, Frame("close", "cl_chan", 0, 0, 0, s.channels))]
     ELSE closeFrom([c EXCEPT !.channels = <<>>, !.inUse = {}], s.defaultChannel, s.connection)

CloseCall ==
  /\ HasFree(tasks)
  /\ LET s == close(Cur, chanClosed) IN
       /\ Commit(s)
       /\ lastCall' = ApiCall("close", IF s.terminated = "close" /\ s.tasks = tasks
                                       THEN "returned" ELSE "started")
  /\ UNCHANGED <<driverVars, supervisorFrame>>

\* The close() calls on the pool channels have settled (the loop runs over the
\* live array): the pool is emptied.
CloseChannelsClosed(f) ==
  /\ f \in Frames
  /\ f.pc = "cl_chan"
  /\ chanClosed' = chanClosed \cup Members(f.snap) \cup Members(channels)
  /\ Commit(closeFrom([Cur EXCEPT !.channels = <<>>, !.inUse = {}, !.tasks = Finish(@, f)],
                      defaultChannel, connection))
  /\ UNCHANGED <<nconn, connOpen, nchan, chanConn>>
  /\ NotACall

\* close() of the default channel has settled: the field is nulled.
CloseDefaultClosed(f) ==
  /\ f \in Frames
  /\ f.pc = "cl_default"
  /\ chanClosed' = chanClosed \cup {f.cn}
  /\ Commit(closeFrom([Cur EXCEPT !.defaultChannel = 0, !.tasks = Finish(@, f)],
                      0, connection))
  /\ UNCHANGED <<nconn, connOpen, nchan, chanConn>>
  /\ NotACall

\* close() of the connection has settled. Closing an open connection emits
\* 'close', whose handler calls reconnect(); whether close() resolved or threw,
\* the field is nulled, 'closed' is emitted and close() returns.
CloseConnectionClosed(f) ==
  /\ f \in Frames
  /\ f.pc = "cl_conn"
  /\ LET k == f.cn
         s == [Cur EXCEPT !.tasks = Finish(@, f)]
         e == IF k \in connOpen THEN reconnect(s) ELSE s
     IN /\ ConnClosed(k)
        /\ Commit([e EXCEPT !.connection = 0, !.terminated = "close"])
  /\ NotACall

\* ------------------------------------------------------------ channel pool

\* What a pool operation did: the call or its settlement, and the channel it
\* returned or released (0: none). A run with limits.poolLog = 0 keeps no
\* record of the pool's calls.
PoolCall(op, outcome, ch) ==
  IF limits.poolLog = 0 THEN NoCall
  ELSE [op |-> op, outcome |-> outcome, promise |-> 0, channel |-> ch]

\* What the pool's steps leave alone.
PoolStep == UNCHANGED <<options, limits, extVars, ackVars, msgVars>>

\* The driver creates a channel on connection cn; recovered tells whether
\* recoverChannel() attached handleChannelError to it.
NewChannel(cn, recovered) ==
  /\ cn \in connOpen
  /\ nchan < limits.chans
  /\ nchan' = nchan + 1
  /\ chanConn' = Append(chanConn, cn)
  /\ chanRecovered' = IF recovered THEN chanRecovered \cup {nchan + 1} ELSE chanRecovered
  /\ UNCHANGED <<nconn, connOpen, chanClosed, released>>

\* A variant of the search that hands out channels that are in use.
availableChannelIgnoringInUse(chs, used, closed) ==
  LET free == {i \in 1..Len(chs) : chs[i] # 0 /\ chs[i] \notin closed}
  IN IF free = {} THEN 0 ELSE chs[CHOOSE i \in free : \A j \in free : i <= j]

\* channels.find(ch => !inUse.has(ch) && isChannelOpen(ch)): the first free open
\* channel of the pool, 0 if there is none.
availableChannel(chs, used, closed) ==
  LET free == {i \in 1..Len(chs) : chs[i] # 0 /\ chs[i] \notin used /\ chs[i] \notin closed}
  IN IF free = {} THEN 0 ELSE chs[CHOOSE i \in free : \A j \in free : i <= j]

\* Caller c has a getChannel() call in flight.
Requesting(c) == \E f \in Frames : f.kind = "getChannel" /\ f.p = c

\* getChannel() by caller c, up to its return or its first await: without a
\* connection it throws; a free channel is leased at once; below maxChannels a
\* channel is created; otherwise the call polls the pool.
GetChannelCall(c) ==
  /\ held[c] = {} /\ ~Requesting(c)
  /\ LET ch == availableChannel(channels, inUse, chanClosed) IN
       IF connection = 0
       THEN /\ Commit(Cur)
            /\ lastCall' = PoolCall("getChannel", "NotConnected", 0)
            /\ UNCHANGED held
       ELSE IF ch # 0
       THEN /\ Commit([Cur EXCEPT !.inUse = @ \cup {ch}])
            /\ held' = [held EXCEPT ![c] = {ch}]
            /\ lastCall' = PoolCall("getChannel", "leased", ch)
       ELSE /\ HasFreePool(tasks, 1)
            /\ Commit([Cur EXCEPT !.tasks = Spawn(@,
                          IF Len(channels) < options.maxChannels
                          THEN Frame("getChannel", "gc_create", c, 0, connection, <<>>)
                          ELSE Frame("getChannel", "gc_wait", c, 0, 0, <<>>))])
            /\ lastCall' = PoolCall("getChannel",
                                    IF Len(channels) < options.maxChannels
                                    THEN "creating" ELSE "waiting", 0)
            /\ UNCHANGED held
  /\ UNCHANGED <<driverVars, chanRecovered, released>>
  /\ PoolStep

\* createConfirmChannel() of getChannel() resolved: the channel is pushed,
\* marked in use and returned.
GetChannelCreated(f) ==
  /\ f \in Frames
  /\ f.pc = "gc_create"
  /\ NewChannel(f.cn, FALSE)
  /\ Commit([Cur EXCEPT !.channels = Append(@, nchan + 1), !.inUse = @ \cup {nchan + 1},
                        !.tasks = Finish(@, f)])
  /\ held' = [held EXCEPT ![f.p] = {nchan + 1}]
  /\ lastCall' = PoolCall("getChannel", "created", nchan + 1)
  /\ PoolStep

\* createConfirmChannel() of getChannel() rejected: handleError(), then the
\* error is thrown to the caller.
GetChannelCreateFailed(f) ==
  /\ f \in Frames
  /\ f.pc = "gc_create"
  /\ Commit(handleError([Cur EXCEPT !.tasks = Finish(@, f)]))
  /\ lastCall' = PoolCall("getChannel", "createFailed", 0)
  /\ UNCHANGED <<driverVars, poolVars>>
  /\ PoolStep

\* A tick of getChannel()'s polling timer that finds a free open channel.
GetChannelPoll(f) ==
  /\ f \in Frames
  /\ f.pc = "gc_wait"
  /\ LET ch == availableChannel(channels, inUse, chanClosed) IN
       /\ ch # 0
       /\ Commit([Cur EXCEPT !.inUse = @ \cup {ch}, !.tasks = Finish(@, f)])
       /\ held' = [held EXCEPT ![f.p] = {ch}]
       /\ lastCall' = PoolCall("getChannel", "acquired", ch)
  /\ UNCHANGED <<driverVars, chanRecovered, released>>
  /\ PoolStep

\* getChannel()'s acquire timeout fires: the call is rejected.
GetChannelTimeout(f) ==
  /\ f \in Frames
  /\ f.pc = "gc_wait"
  /\ Commit([Cur EXCEPT !.tasks = Finish(@, f)])
  /\ lastCall' = PoolCall("getChannel", "ChannelAcquisitionTimeout", 0)
  /\ UNCHANGED <<driverVars, poolVars>>
  /\ PoolStep

\* A variant of releaseChannel() that keeps the in-use mark.
releaseChannelKeepingMark(s, ch, mine) == s

\* releaseChannel(ch): the channel leaves the in-use set, whoever holds it.
releaseChannel(s, ch, mine) == [s EXCEPT !.inUse = @ \ {ch}]

\* releaseChannel(ch) by the caller that holds ch.
ReleaseChannelCall(c) ==
  /\ \E ch \in held[c] :
       /\ Commit(releaseChannel(Cur, ch, held[c]))
       /\ held' = [held EXCEPT ![c] = @ \ {ch}]
       /\ released' = IF limits.poolLog = 0 THEN released ELSE [released EXCEPT ![c] = ch]
       /\ lastCall' = PoolCall("releaseChannel", "released", ch)
  /\ UNCHANGED <<driverVars, chanRecovered>>
  /\ PoolStep

\* releaseChannel(ch) once more by the caller that released ch last.
ReleaseAgainCall(c) ==
  /\ released[c] # 0 /\ held[c] = {}
  /\ Commit(releaseChannel(Cur, released[c], held[c]))
  /\ lastCall' = PoolCall("releaseChannel", "again", released[c])
  /\ UNCHANGED <<driverVars, poolVars>>
  /\ PoolStep

\* The caller that holds a channel closes it.
ChannelCloseCall(c) ==
  /\ \E ch \in held[c] :
       /\ ch \notin chanClosed
       /\ chanClosed' = chanClosed \cup {ch}
  /\ UNCHANGED <<options, limits, extVars, clientVars, historyVars, nconn, connOpen, nchan, chanConn,
                  poolVars, ackVars, msgVars>>
  /\ lastCall' = NoCall

\* ------------------------------------------------------ pool maintenance

\* channels[i] = ch, as a JavaScript array does it: an index past the end
\* lengthens the array and leaves holes.
SetAt(chs, i, ch) ==
  [j \in 1..(IF i > Len(chs) THEN i ELSE Len(chs)) |->
     IF j = i THEN ch ELSE IF j <= Len(chs) THEN chs[j] ELSE 0]

\* The array without its first occurrence of ch (indexOf and splice).
Splice(chs, ch) ==
  LET at == {i \in 1..Len(chs) : chs[i] = ch} IN
  IF at = {} THEN chs
  ELSE LET k == CHOOSE i \in at : \A j \in at : i <= j
       IN [j \in 1..(Len(chs) - 1) |-> IF j < k THEN chs[j] ELSE chs[j + 1]]

\* checkAndRecoverChannels(), the pool part: recoverChannel() is started for
\* every closed pool channel; without an open connection it returns null at once.
poolRecoveries(s, open, closed) ==
  IF s.connection = 0 \/ s.connection \notin open THEN {}
  ELSE {Frame("sweep", "sw_pool", 0, i, s.connection, <<s.channels[i]>>) :
          i \in {j \in 1..Len(s.channels) : s.channels[j] # 0 /\ s.channels[j] \in closed}}

\* checkAndRecoverChannels() up to its first await.
checkAndRecoverChannels(s, open, closed) ==
  IF s.connection = 0 \/ s.connection \notin open THEN s
  ELSE LET new == IF s.defaultChannel = 0 \/ s.defaultChannel \in closed
                  THEN {Frame("sweep", "sw_default", 0, 0, s.connection, <<>>)}
                  ELSE poolRecoveries(s, open, closed)
       IN IF HasFreePool(s.tasks, Cardinality(new))
          THEN [s EXCEPT !.tasks = @ (+) SetToBag(new)]
          ELSE [s EXCEPT !.ok = FALSE]

\* A tick of the channel-recovery timer (setupChannels).
SweepTick ==
  /\ intervalTimers.sweep > 0
  /\ Commit(checkAndRecoverChannels(Cur, connOpen, chanClosed))
  /\ UNCHANGED <<driverVars, poolVars>>
  /\ lastCall' = NoCall
  /\ PoolStep

\* The sweep's createConfirmChannel() for the default channel resolved: the
\* field is set and the pool part starts.
SweepDefaultCreated(f) ==
  /\ f \in Frames
  /\ f.pc = "sw_default"
  /\ NewChannel(f.cn, FALSE)
  /\ LET s == [Cur EXCEPT !.defaultChannel = nchan + 1, !.tasks = Finish(@, f)]
         new == poolRecoveries(s, connOpen, chanClosed)
     IN /\ HasFreePool(s.tasks, Cardinality(new))
        /\ Commit([s EXCEPT !.tasks = @ (+) SetToBag(new)])
  /\ UNCHANGED <<held, released>>
  /\ lastCall' = NoCall
  /\ PoolStep

\* The sweep's createConfirmChannel() for the default channel rejected: the
\* next attempt after the retry delay, and reconnect() after the last one.
SweepDefaultFailed(f) ==
  /\ f \in Frames
  /\ f.pc = "sw_default"
  /\ IF f.n + 1 < options.maxRetries
     THEN Commit([Cur EXCEPT !.tasks = Resume(@, f, [f EXCEPT !.n = @ + 1,
                                                              !.cn = connection])])
     ELSE Commit(reconnect([Cur EXCEPT !.tasks = Finish(@, f)]))
  /\ UNCHANGED <<driverVars, poolVars>>
  /\ lastCall' = NoCall
  /\ PoolStep

\* recoverChannel() of the sweep resolved for index f.n: the new channel takes
\* that index and inherits the in-use mark of the channel it replaces.
SweepPoolCreated(f) ==
  /\ f \in Frames
  /\ f.pc = "sw_pool"
  /\ NewChannel(f.cn, TRUE)
  /\ LET old == f.snap[1] IN
       Commit([Cur EXCEPT !.channels = SetAt(@, f.n, nchan + 1),
                          !.inUse = IF old \in @ THEN (@ \ {old}) \cup {nchan + 1} ELSE @,
                          !.tasks = Finish(@, f)])
  /\ UNCHANGED <<held, released>>
  /\ lastCall' = NoCall
  /\ PoolStep

\* recoverChannel() of the sweep returned null: the next attempt, if any.
SweepPoolFailed(f) ==
  /\ f \in Frames
  /\ f.pc = "sw_pool"
  /\ IF f.p + 1 < options.maxRetries /\ isConnectionOpen(connection)
     THEN Commit([Cur EXCEPT !.tasks = Resume(@, f, [f EXCEPT !.p = @ + 1,
                                                              !.cn = connection])])
     ELSE Commit([Cur EXCEPT !.tasks = Finish(@, f)])
  /\ UNCHANGED <<driverVars, poolVars>>
  /\ lastCall' = NoCall
  /\ PoolStep

\* handleChannelError(channel) up to its await: the channel leaves the pool and
\* the in-use set, and recoverChannel() is started.
handleChannelError(s, ch, open) ==
  LET inPool == \E i \in 1..Len(s.channels) : s.channels[i] = ch
      t == IF inPool THEN [s EXCEPT !.channels = Splice(@, ch), !.inUse = @ \ {ch}] ELSE s
  IN IF s.connection = 0 \/ s.connection \notin open THEN t
     ELSE IF ~HasFreePool(s.tasks, 1) THEN [s EXCEPT !.ok = FALSE]
     ELSE [t EXCEPT !.tasks = Spawn(@, Frame("handleChannelError", "hce",
                                             IF inPool THEN 1 ELSE 0, ch, s.connection, <<>>))]

\* A recovered channel fails: the driver closes it and emits 'error' on it.
ChannelError(ch) ==
  /\ ch \in chanRecovered \ chanClosed
  /\ chanClosed' = chanClosed \cup {ch}
  /\ Commit(handleChannelError(Cur, ch, connOpen))
  /\ UNCHANGED <<nconn, connOpen, nchan, chanConn, poolVars>>
  /\ lastCall' = NoCall
  /\ PoolStep

\* recoverChannel() of handleChannelError() resolved: the new channel is pushed
\* if the failed one was in the pool, or replaces the default channel.
HandleChannelErrorRecovered(f) ==
  /\ f \in Frames
  /\ f.pc = "hce"
  /\ NewChannel(f.cn, TRUE)
  /\ Commit([Cur EXCEPT !.channels = IF f.p = 1 THEN Append(@, nchan + 1) ELSE @,
                        !.defaultChannel = IF f.p = 0 /\ @ = f.n THEN nchan + 1 ELSE @,
                        !.tasks = Finish(@, f)])
  /\ UNCHANGED <<held, released>>
  /\ lastCall' = NoCall
  /\ PoolStep

\* recoverChannel() of handleChannelError() returned null.
HandleChannelErrorFailed(f) ==
  /\ f \in Frames
  /\ f.pc = "hce"
  /\ Commit([Cur EXCEPT !.tasks = Finish(@, f)])
  /\ UNCHANGED <<driverVars, poolVars>>
  /\ lastCall' = NoCall
  /\ PoolStep

\* cleanupStaleChannels() up to its await: the closed pool channels lose their
\* in-use mark and are closed.
CleanupStaleCall ==
  /\ LET stale == {ch \in Members(channels) : ch \in chanClosed} IN
       /\ stale # {}
       /\ HasFreePool(tasks, 1)
       /\ Commit([Cur EXCEPT !.inUse = @ \ stale,
                             !.tasks = Spawn(@, Frame("cleanupStale", "cs_close",
                                                      0, 0, 0, <<>>))])
  /\ UNCHANGED <<driverVars, poolVars>>
  /\ lastCall' = NoCall
  /\ PoolStep

\* The close() calls of cleanupStaleChannels() have settled: the pool keeps its
\* open channels.
CleanupStaleClosed(f) ==
  /\ f \in Frames
  /\ f.pc = "cs_close"
  /\ Commit([Cur EXCEPT !.channels = SelectSeq(@, LAMBDA ch : isChannelOpen(ch)),
                        !.tasks = Finish(@, f)])
  /\ UNCHANGED <<driverVars, poolVars>>
  /\ lastCall' = NoCall
  /\ PoolStep

\* ------------------------------------------------- manual settlement

\* The calls a handler can make on the actions of createMessageActions():
\* ack(), nack(requeue) and reject(requeue).
ActionCalls ==
  {[op |-> "ack", requeue |-> FALSE]}
    \cup [op : {"nack", "reject"}, requeue : BOOLEAN]

\* What the delivery steps leave alone.
AckStep ==
  /\ lastCall' = NoCall
  /\ UNCHANGED <<options, limits, extVars, clientVars, historyVars, driverVars, poolVars, msgVars>>

\* The driver delivers a message to a manualAck consumer of the default
\* channel: createMessageActions() makes its closure, acknowledged = false.
DeliverMessage ==
  /\ Len(acknowledged) < MaxMsgs
  /\ isChannelOpen(defaultChannel)
  /\ acknowledged' = Append(acknowledged, FALSE)
  /\ settlements' = Append(settlements, <<>>)
  /\ actionCalls' = Append(actionCalls, <<>>)
  /\ AckStep

\* A variant of the actions that settles without looking at the flag.
settleAlways(flag, done, call, channel) ==
  [acknowledged |-> TRUE,
   settlements |-> IF channel # 0 THEN Append(done, call) ELSE done]

\* One of actions.ack / nack / reject: nothing when the flag is set; otherwise
\* the flag is set and the settlement goes to this.defaultChannel, if there is one.
settle(flag, done, call, channel) ==
  IF flag
  THEN [acknowledged |-> flag, settlements |-> done]
  ELSE [acknowledged |-> TRUE,
        settlements |-> IF channel # 0 THEN Append(done, call) ELSE done]

\* The handler of message m calls one of its actions.
MessageAction(m, call) ==
  /\ m \in 1..Len(acknowledged)
  /\ Len(actionCalls[m]) < MaxActionCalls
  /\ LET r == settle(acknowledged[m], settlements[m], call, defaultChannel) IN
       /\ acknowledged' = [acknowledged EXCEPT ![m] = r.acknowledged]
       /\ settlements' = [settlements EXCEPT ![m] = r.settlements]
  /\ actionCalls' = [actionCalls EXCEPT ![m] = Append(@, call)]
  /\ AckStep

\* ------------------------------------------------- channel operations

\* The operations that start with ensureChannel().
ChannelOperations ==
  {"publish", "publishBatch", "sendToQueue", "consume", "get", "ack", "nack", "reject",
   "cancel", "prefetch", "assertQueue", "assertExchange", "bindQueue", "unbindQueue",
   "deleteQueue", "purgeQueue", "deleteExchange"}

\* A variant of ensureChannel() that tests the two fields for null only.
ensureChannelFieldsOnly(s, open, closed) == s.defaultChannel # 0 /\ s.connection # 0

\* ensureChannel() passes: the default channel and the connection are set and
\* both are open.
ensureChannel(s, open, closed) ==
  /\ s.defaultChannel # 0
  /\ s.connection # 0
  /\ s.connection \in open
  /\ s.defaultChannel \notin closed

\* What a channel operation did and the channel it called the driver on.
ChannelCall(op, outcome, ch) ==
  [op |-> op, outcome |-> outcome, promise |-> 0, channel |-> ch]

\* A channel operation up to its first driver call: it throws 'Not connected'
\* when ensureChannel() fails, and calls the driver on the default channel
\* otherwise. publish() arms its timeout and waits for the broker's confirm;
\* sendToQueue() waits for the confirm without a timer.
ChannelOperationCall(op) ==
  /\ IF ~ensureChannel(Cur, connOpen, chanClosed)
     THEN /\ lastCall' = ChannelCall(op, "NotConnected", 0)
          /\ UNCHANGED publishes
     ELSE /\ lastCall' = ChannelCall(op, "called", defaultChannel)
          /\ IF op \in {"publish", "sendToQueue"}
             THEN /\ Len(publishes) < limits.publishes
                  /\ publishes' = Append(publishes,
                                         [op |-> op, channel |-> defaultChannel,
                                          state |-> "pending",
                                          timer |-> IF op = "publish" THEN "armed" ELSE "none",
                                          confirmed |-> FALSE, call |-> "pending"])
             ELSE UNCHANGED publishes
  /\ UNCHANGED <<options, limits, extVars, clientVars, historyVars, driverVars, poolVars, ackVars,
                  metrics, deliveries, batches>>

\* A variant of the confirm callback that settles the call whatever its state.
confirmPublishIgnoringSettled(e, ok) ==
  [e EXCEPT !.confirmed = TRUE,
            !.timer = IF @ = "armed" THEN "cleared" ELSE @,
            !.state = IF ok THEN "resolved" ELSE "rejected"]

\* The confirm callback of publish(): clearTimeout(), then resolve() or
\* reject(), which do nothing once the promise is settled.
confirmPublish(e, ok) ==
  [e EXCEPT !.confirmed = TRUE,
            !.timer = IF @ = "armed" THEN "cleared" ELSE @,
            !.state = IF @ # "pending" THEN @ ELSE IF ok THEN "resolved" ELSE "rejected"]

\* The call of publish() or sendToQueue() once its promise went from e to r: it
\* returns after updateMetrics('sent'), and it throws after handleError(), which
\* awaits reconnect() unless the reconnecting flag is set; reconnect() returns
\* at once during a shutdown.
callAfter(e, r, s) ==
  IF r.state = e.state THEN e.call
  ELSE IF r.state = "resolved" THEN "resolved"
  ELSE IF s.reconnecting \/ s.shutdownInProgress THEN "rejected"
  ELSE "awaitsReconnect"

\* What the message steps leave alone.
MsgStep ==
  lastCall' = NoCall /\ UNCHANGED <<options, limits, extVars, poolVars, ackVars>>

\* The broker's confirm for publish() or sendToQueue() call i arrives: an ack
\* (ok) while the channel is open, an error otherwise. A resolved call goes on to
\* updateMetrics('sent'); a rejected one to handleError().
PublishConfirmed(i, ok) ==
  /\ i \in 1..Len(publishes)
  /\ ~publishes[i].confirmed
  /\ ok => isChannelOpen(publishes[i].channel)
  /\ LET e == publishes[i]
         r == confirmPublish(e, ok)
     IN /\ publishes' = [publishes EXCEPT ![i] = [r EXCEPT !.call = callAfter(e, r, Cur)]]
        /\ metrics' = IF r.state = "resolved" /\ e.state # "resolved"
                      THEN [metrics EXCEPT !.messagesSent = @ + 1] ELSE metrics
        /\ Commit(IF r.state = "rejected" /\ e.state # "rejected"
                  THEN handleError(Cur) ELSE Cur)
  /\ UNCHANGED <<driverVars, deliveries, batches>>
  /\ MsgStep

\* The timeout of publish() call i fires: the call is rejected and goes on to
\* handleError().
PublishTimeout(i) ==
  /\ i \in 1..Len(publishes)
  /\ publishes[i].timer = "armed"
  /\ LET e == publishes[i]
         r == [e EXCEPT !.timer = "fired", !.state = "rejected"]
     IN publishes' = [publishes EXCEPT ![i] = [r EXCEPT !.call = callAfter(e, r, Cur)]]
  /\ Commit(handleError(Cur))
  /\ UNCHANGED <<driverVars, metrics, deliveries, batches>>
  /\ MsgStep

\* The reconnect() that the handleError() of call i awaits has returned: the
\* call throws its error. The activations of reconnect() leave their loops on
\* the same test of this.connection; the call resumes when none is left.
PublishReconnectReturned(i) ==
  /\ i \in 1..Len(publishes)
  /\ publishes[i].call = "awaitsReconnect"
  /\ Count(tasks, {"reconnect"}) = 0
  /\ publishes' = [publishes EXCEPT ![i].call = "rejected"]
  /\ UNCHANGED <<clientVars, historyVars, driverVars, metrics, deliveries, batches>>
  /\ MsgStep

\* ----------------------------------------------------------- publishBatch()

\* The sizes of the batches the application publishes.
BatchSizes == 0..MaxBatchSize

\* publishBatch(messages) after ensureChannel(): the loop hands the first
\* message to the driver and awaits its confirm; an empty batch is complete at
\* once.
PublishBatchCall(n) ==
  /\ ensureChannel(Cur, connOpen, chanClosed)
  /\ Len(batches) < limits.publishes
  /\ batches' = Append(batches, [size |-> n, handed |-> IF n = 0 THEN 0 ELSE 1,
                                 succeeded |-> 0, channel |-> defaultChannel,
                                 state |-> IF n = 0 THEN "resolved" ELSE "pending"])
  /\ lastCall' = ChannelCall("publishBatch", "called", defaultChannel)
  /\ UNCHANGED <<options, limits, extVars, clientVars, historyVars, driverVars, poolVars, ackVars,
                  metrics, publishes, deliveries>>

\* The counter of sent messages when the loop of publishBatch() ends:
\* messages.length is added after the last message, and nothing when a message
\* failed.
batchEnd(sent, b, completed) == IF completed THEN sent + b.size ELSE sent

\* The confirm of the message a batch is waiting for arrives. An ack lets the
\* loop hand the next message to this.defaultChannel (nothing is handed without
\* a default channel, and the loop waits for ever; publish() on a closed channel
\* throws) or, after the last message, add the batch to the counter; an error
\* ends the loop, and handleError() follows.
BatchConfirmed(i, ok) ==
  /\ i \in 1..Len(batches)
  /\ batches[i].state = "pending"
  /\ ok => isChannelOpen(batches[i].channel)
  /\ LET b == batches[i]
         c == [b EXCEPT !.succeeded = IF ok THEN @ + 1 ELSE @]
         r == IF ~ok THEN [c EXCEPT !.state = "rejected"]
              ELSE IF c.succeeded = c.size THEN [c EXCEPT !.state = "resolved"]
              ELSE IF defaultChannel = 0 THEN [c EXCEPT !.state = "stuck"]
              ELSE IF ~isChannelOpen(defaultChannel) THEN [c EXCEPT !.state = "rejected"]
              ELSE [c EXCEPT !.handed = @ + 1, !.channel = defaultChannel]
     IN /\ batches' = [batches EXCEPT ![i] = r]
        /\ metrics' = IF r.state \in {"resolved", "rejected"}
                      THEN [metrics EXCEPT !.messagesSent = batchEnd(@, r, r.state = "resolved")]
                      ELSE metrics
        /\ Commit(IF r.state = "rejected" THEN handleError(Cur) ELSE Cur)
  /\ UNCHANGED <<driverVars, publishes, deliveries>>
  /\ MsgStep

\* The messages of the batches that the broker confirmed.
RECURSIVE Confirmed(_)
Confirmed(bs) ==
  IF bs = <<>> THEN 0 ELSE Head(bs).succeeded + Confirmed(Tail(bs))

\* ------------------------------------------------- automatic settlement

\* What ends the race of a delivery: the handler's promise or the timer.
HandlerEvents == {"resolved", "rejected", "timeout"}

\* The driver delivers a message to a consumer of the default channel that was
\* registered with manualAck = false and noAck = false: the handler is called
\* and the processing timer is armed.
DeliverAuto ==
  /\ Len(deliveries) < limits.deliveries
  /\ isConnectionOpen(connection) /\ isChannelOpen(defaultChannel)
  /\ deliveries' = Append(deliveries, [channel |-> defaultChannel, events |-> <<>>,
                                       at |-> "none", settlements |-> <<>>])
  /\ UNCHANGED <<clientVars, historyVars, driverVars, metrics, publishes, batches>>
  /\ MsgStep

\* A settlement call of the consumer callback.
Settlement(op, ch) == [op |-> op, allUpTo |-> FALSE, requeue |-> (op = "nack"), channel |-> ch]

\* A variant of the callback that settles at every event of the race.
autoSettleEveryEvent(e, how, dc, closed) ==
  [e EXCEPT !.events = Append(@, how),
            !.at = IF dc = 0 THEN "null" ELSE IF dc \in closed THEN "closed" ELSE "open",
            !.settlements = IF dc = 0 \/ dc \in closed THEN @
                            ELSE Append(@, Settlement(IF how = "resolved" THEN "ack" ELSE "nack",
                                                      dc))]

\* The consumer callback after Promise.race() settled with the first event:
\* this.defaultChannel?.ack(msg) when the handler resolved, and
\* this.defaultChannel?.nack(msg, false, true) otherwise. Both throw on a closed
\* channel and do nothing without a channel. A later event of the same race
\* finds it settled.
autoSettle(e, how, dc, closed) ==
  IF e.events # <<>> THEN [e EXCEPT !.events = Append(@, how)]
  ELSE [e EXCEPT !.events = <<how>>,
                 !.at = IF dc = 0 THEN "null" ELSE IF dc \in closed THEN "closed" ELSE "open",
                 !.settlements = IF dc = 0 \/ dc \in closed THEN @
                                 ELSE <<Settlement(IF how = "resolved" THEN "ack" ELSE "nack",
                                                   dc)>>]

\* The handler of delivery m resolves or rejects, or its processing timer
\* fires. After an ack that did not throw the callback counts the message as
\* received; every other first event ends in handleError().
HandlerEvent(m, how) ==
  /\ m \in 1..Len(deliveries)
  /\ how \notin {deliveries[m].events[i] : i \in 1..Len(deliveries[m].events)}
  /\ how = "resolved" => "rejected" \notin {deliveries[m].events[i] :
                                             i \in 1..Len(deliveries[m].events)}
  /\ how = "rejected" => "resolved" \notin {deliveries[m].events[i] :
                                             i \in 1..Len(deliveries[m].events)}
  /\ LET e == deliveries[m]
         r == autoSettle(e, how, defaultChannel, chanClosed)
         first == e.events = <<>>
         acked == first /\ how = "resolved" /\ r.at # "closed"
     IN /\ deliveries' = [deliveries EXCEPT ![m] = r]
        /\ metrics' = IF acked THEN [metrics EXCEPT !.messagesReceived = @ + 1] ELSE metrics
        /\ Commit(IF first /\ ~acked THEN handleError(Cur) ELSE Cur)
  /\ UNCHANGED <<driverVars, publishes, batches>>
  /\ MsgStep

\* ------------------------------------------------------------ specification

Options ==
  [maxChannels : {1}, failureThreshold : {1, 2}, maxReconnectAttempts : {-1},
   maxRetries : {1}]

\* No shutdown operation has been called.
InitHistory ==
  /\ terminated = "no"
  /\ shutdownLog = [calls |-> 0, closed |-> {}, again |-> {}]
  /\ emitted = [reconnecting |-> 0, reconnectFailed |-> 0, reconnected |-> 0,
                reconnections |-> 0]

\* No message has been published or delivered.
InitMsg ==
  /\ metrics = [messagesSent |-> 0, messagesReceived |-> 0]
  /\ publishes = <<>>
  /\ deliveries = <<>>
  /\ batches = <<>>

\* No reconnect delay has been computed.
NoBackoff ==
  [reconnectDelay |-> DefaultReconnectDelay, exponentialBackoff |-> TRUE, called |-> FALSE,
   attempts |-> 0, jitter |-> 0, delay |-> 0]

\* options.urls
Urls == <<"A", "B", "C">>

\* The registry of a client constructed with the given failoverStrategy.
NewCluster(strategy, budget, logging) ==
  [failoverStrategy |-> strategy, currentUrlIndex |-> 0, activeNodes |-> <<>>,
   conn |-> [pc |-> "idle", url |-> "none", retries |-> 0, nodes |-> <<>>],
   sweep |-> 0, budget |-> budget, started |-> 0, logging |-> logging, log |-> <<>>,
   reachable |-> FALSE]

\* The shared-client module after it was loaded.
NoSharedClient ==
  [sharedClient |-> 0, isInitializing |-> FALSE, initializationPromise |-> 0,
   clients |-> <<>>, calls |-> <<>>]

InitExt ==
  /\ shared = NoSharedClient
  /\ backoff = NoBackoff
  /\ cluster = NewCluster("round-robin", 0, FALSE)

\* The fields as the constructor leaves them.
InitClient ==
  /\ connection = 0 /\ defaultChannel = 0
  /\ reconnecting = FALSE /\ connectionPromise = 0 /\ reconnectAttempts = 0
  /\ channels = <<>> /\ inUse = {}
  /\ circuitBreaker = [failures |-> 0, isOpen |-> FALSE, lastFailure |-> "null"]
  /\ shutdownInProgress = FALSE
  /\ intervalTimers = [health |-> 0, sweep |-> 0]
  /\ promises = <<>>
  /\ tasks = EmptyBag
  /\ InitHistory

InitDriver ==
  /\ nconn = 0 /\ connOpen = {} /\ nchan = 0
  /\ chanConn = <<>>
  /\ chanClosed = {}

InitPool ==
  /\ chanRecovered = {}
  /\ held = [c \in Callers |-> {}]
  /\ released = [c \in Callers |-> 0]

InitAck ==
  /\ acknowledged = <<>> /\ settlements = <<>> /\ actionCalls = <<>>

Init ==
  /\ options \in Options
  /\ limits = [conns |-> MaxConns, chans |-> MaxChans, tasks |-> MaxTasks,
               poolTasks |-> MaxPoolTasks, shutdownCalls |-> 0, publishes |-> 0,
               deliveries |-> 0, poolLog |-> 0,
               attempts |-> MaxAttempts, eventLog |-> 0,
               saturate |-> FALSE]
  /\ InitClient /\ InitDriver /\ InitPool
  /\ lastCall = NoCall
  /\ InitAck /\ InitMsg /\ InitExt

Next ==
  \/ ConnectCall
  \/ \E f \in Frames : EstablishConnected(f)
  \/ \E f \in Frames : EstablishConnectFailed(f)
  \/ \E f \in Frames : DefaultChannelCreated(f)
  \/ \E f \in Frames : DefaultChannelFailed(f)
  \/ \E f \in Frames : PoolChannelCreated(f)
  \/ \E f \in Frames : PoolChannelFailed(f)
  \/ \E f \in Frames : ForceCleanupChannelsClosed(f)
  \/ \E f \in Frames : ForceCleanupDefaultClosed(f)
  \/ \E f \in Frames : ForceCleanupConnectionClosed(f)
  \/ \E f \in Frames : ReconnectDelayElapsed(f)
  \/ \E f \in Frames : NodeConnected(f)
  \/ \E f \in Frames : NodeConnectFailed(f)
  \/ \E k \in connOpen, e \in BOOLEAN : ConnectionLost(k, e)
  \/ DefaultChannelError
  \/ \E h \in BOOLEAN : HealthCheckTick(h)
  \/ HandleError
  \/ GracefulShutdownCall
  \/ \E f \in Frames : ShutdownDrained(f)
  \/ \E f \in Frames : ShutdownChannelsClosed(f)
  \/ \E f \in Frames : ShutdownDefaultClosed(f)
  \/ \E f \in Frames : ShutdownConnectionClosed(f)

Spec == Init /\ [][Next]_vars

\* The same client with one more driver connection and fewer channels: room
\* for a connect() and two reconnect() activations to connect one after the
\* other.
InitConns ==
  /\ options \in {o \in Options : o.failureThreshold = 2}
  /\ limits = [conns |-> ConnsMaxConns, chans |-> ConnsMaxChans, tasks |-> MaxTasks,
               poolTasks |-> MaxPoolTasks, shutdownCalls |-> 0, publishes |-> 0,
               deliveries |-> 0, poolLog |-> 0,
               attempts |-> MaxAttempts, eventLog |-> 0,
               saturate |-> FALSE]
  /\ InitClient /\ InitDriver /\ InitPool
  /\ lastCall = NoCall
  /\ InitAck /\ InitMsg /\ InitExt

SpecConns == InitConns /\ [][Next]_vars

PoolOptions ==
  [maxChannels : {1}, failureThreshold : {2}, maxReconnectAttempts : {-1},
   maxRetries : {1}]

\* The client after a connect() that succeeded at its first attempt: connection
\* 1 with the default channel 1 and the pool channels 2..maxChannels+1.
Connected ==
  /\ connection = 1 /\ defaultChannel = 1
  /\ reconnecting = FALSE /\ connectionPromise = 0 /\ reconnectAttempts = 0
  /\ channels = [i \in 1..options.maxChannels |-> i + 1] /\ inUse = {}
  /\ circuitBreaker = [failures |-> 0, isOpen |-> FALSE, lastFailure |-> "null"]
  /\ shutdownInProgress = FALSE
  /\ intervalTimers = [health |-> 1, sweep |-> 1]
  /\ promises = <<"resolved">>
  /\ tasks = EmptyBag
  /\ nconn = 1 /\ connOpen = {1} /\ nchan = options.maxChannels + 1
  /\ chanConn = [c \in 1..(options.maxChannels + 1) |-> 1]
  /\ chanClosed = {}
  /\ InitHistory
  /\ InitPool
  /\ lastCall = NoCall
  /\ InitAck /\ InitMsg /\ InitExt

InitConnected ==
  /\ options \in PoolOptions
  /\ limits = [conns |-> PoolMaxConns, chans |-> PoolMaxChans, tasks |-> PoolMaxTasks,
               poolTasks |-> MaxPoolTasks, shutdownCalls |-> 0, publishes |-> 0,
               deliveries |-> 0, poolLog |-> 0,
               attempts |-> MaxAttempts, eventLog |-> 0,
               saturate |-> FALSE]
  /\ Connected

\* The reconnect loop's steps.
ReconnectStep ==
  \/ \E f \in Frames : ForceCleanupChannelsClosed(f)
  \/ \E f \in Frames : ForceCleanupDefaultClosed(f)
  \/ \E f \in Frames : ForceCleanupConnectionClosed(f)
  \/ \E f \in Frames : ReconnectDelayElapsed(f)
  \/ \E f \in Frames : NodeConnected(f)
  \/ \E f \in Frames : NodeConnectFailed(f)
  \/ \E f \in Frames : DefaultChannelCreated(f)
  \/ \E f \in Frames : DefaultChannelFailed(f)
  \/ \E f \in Frames : PoolChannelCreated(f)
  \/ \E f \in Frames : PoolChannelFailed(f)

NextPool ==
  \/ \E c \in Callers : GetChannelCall(c)
  \/ \E f \in Frames : GetChannelCreated(f)
  \/ \E f \in Frames : GetChannelCreateFailed(f)
  \/ \E f \in Frames : GetChannelPoll(f)
  \/ \E f \in Frames : GetChannelTimeout(f)
  \/ \E c \in Callers : ReleaseChannelCall(c)
  \/ \E c \in Callers : ChannelCloseCall(c)
  \/ SweepTick
  \/ \E f \in Frames : SweepDefaultCreated(f)
  \/ \E f \in Frames : SweepDefaultFailed(f)
  \/ \E f \in Frames : SweepPoolCreated(f)
  \/ \E f \in Frames : SweepPoolFailed(f)
  \/ \E ch \in chanRecovered : ChannelError(ch)
  \/ \E f \in Frames : HandleChannelErrorRecovered(f)
  \/ \E f \in Frames : HandleChannelErrorFailed(f)
  \/ CleanupStaleCall
  \/ \E f \in Frames : CleanupStaleClosed(f)
  \/ \E k \in connOpen : ConnectionLost(k, FALSE)
  \/ ReconnectStep

SpecPool == InitConnected /\ [][NextPool]_vars

\* A connected client whose callers lease channels while the default channel
\* can fail, so that reconnect() starts on a connection that is still open.
InitStale ==
  /\ options \in PoolOptions
  /\ limits = [conns |-> StaleMaxConns, chans |-> StaleMaxChans, tasks |-> StaleMaxTasks,
               poolTasks |-> StaleMaxPoolTasks, shutdownCalls |-> 0, publishes |-> 0,
               deliveries |-> 0, poolLog |-> 0,
               attempts |-> MaxAttempts, eventLog |-> 0,
               saturate |-> FALSE]
  /\ Connected

NextStale ==
  \/ \E c \in Callers : GetChannelCall(c)
  \/ \E f \in Frames : GetChannelCreated(f)
  \/ \E f \in Frames : GetChannelCreateFailed(f)
  \/ \E f \in Frames : GetChannelPoll(f)
  \/ \E f \in Frames : GetChannelTimeout(f)
  \/ \E c \in Callers : ReleaseChannelCall(c)
  \/ DefaultChannelError
  \/ ReconnectStep

SpecStale == InitStale /\ [][NextStale]_vars

\* gracefulShutdown()'s steps.
ShutdownStep ==
  \/ \E f \in Frames : ShutdownDrained(f)
  \/ \E f \in Frames : ShutdownChannelsClosed(f)
  \/ \E f \in Frames : ShutdownDefaultClosed(f)
  \/ \E f \in Frames : ShutdownConnectionClosed(f)

NextAck ==
  \/ DeliverMessage
  \/ \E m \in 1..MaxMsgs, call \in ActionCalls : MessageAction(m, call)
  \/ GracefulShutdownCall
  \/ ShutdownStep

SpecAck == InitConnected /\ [][NextAck]_vars

\* close()'s steps.
CloseStep ==
  \/ \E f \in Frames : CloseChannelsClosed(f)
  \/ \E f \in Frames : CloseDefaultClosed(f)
  \/ \E f \in Frames : CloseConnectionClosed(f)

InitLife ==
  /\ options \in PoolOptions
  /\ limits = [conns |-> LifeMaxConns, chans |-> LifeMaxChans, tasks |-> LifeMaxTasks,
               poolTasks |-> 0, shutdownCalls |-> MaxShutdownCalls, publishes |-> 0,
               deliveries |-> 0, poolLog |-> 0,
               attempts |-> MaxAttempts, eventLog |-> 0,
               saturate |-> FALSE]
  /\ Connected

NextLife ==
  \/ CloseCall
  \/ CloseStep
  \/ GracefulShutdownCall
  \/ ShutdownStep
  \/ ConnectCall
  \/ \E f \in Frames : EstablishConnected(f)
  \/ \E f \in Frames : EstablishConnectFailed(f)
  \/ \E k \in connOpen : ConnectionLost(k, FALSE)
  \/ ReconnectStep

SpecLife == InitLife /\ [][NextLife]_vars

\* A new client, with the driver resources of SpecLife and one activation at a time.
InitApi ==
  /\ options \in PoolOptions
  /\ limits = [conns |-> LifeMaxConns, chans |-> LifeMaxChans, tasks |-> ApiMaxTasks,
               poolTasks |-> 0, shutdownCalls |-> 0, publishes |-> ApiMaxPublishes,
               deliveries |-> 0, poolLog |-> 0,
               attempts |-> MaxAttempts, eventLog |-> 0,
               saturate |-> FALSE]
  /\ InitClient /\ InitDriver /\ InitPool
  /\ lastCall = NoCall
  /\ InitAck /\ InitMsg /\ InitExt

NextApi ==
  \/ \E op \in ChannelOperations : ChannelOperationCall(op)
  \/ ConnectCall
  \/ \E f \in Frames : EstablishConnected(f)
  \/ \E f \in Frames : EstablishConnectFailed(f)
  \/ \E k \in connOpen : ConnectionLost(k, FALSE)
  \/ DefaultChannelError
  \/ ReconnectStep
  \/ CloseCall
  \/ CloseStep
  \/ GracefulShutdownCall
  \/ ShutdownStep

SpecApi == InitApi /\ [][NextApi]_vars

LeaseOptions ==
  [maxChannels : {1, 2}, failureThreshold : {2}, maxReconnectAttempts : {-1},
   maxRetries : {1}]

\* A connected client with a pool of one or two channels, on a connection that
\* stays up.
InitLease ==
  /\ options \in LeaseOptions
  /\ limits = [conns |-> LeaseMaxConns, chans |-> LeaseMaxChans, tasks |-> 0,
               poolTasks |-> LeaseMaxPoolTasks, shutdownCalls |-> 0, publishes |-> 0,
               deliveries |-> 0, poolLog |-> 1,
               attempts |-> MaxAttempts, eventLog |-> 0,
               saturate |-> FALSE]
  /\ Connected

\* The callers lease, release (once or again) and close pool channels, and the
\* closed channels are cleaned out of the pool.
NextLease ==
  \/ \E c \in Callers : GetChannelCall(c)
  \/ \E f \in Frames : GetChannelCreated(f)
  \/ \E f \in Frames : GetChannelPoll(f)
  \/ \E f \in Frames : GetChannelTimeout(f)
  \/ \E c \in Callers : ReleaseChannelCall(c)
  \/ \E c \in Callers : ReleaseAgainCall(c)
  \/ \E c \in Callers : ChannelCloseCall(c)
  \/ CleanupStaleCall
  \/ \E f \in Frames : CleanupStaleClosed(f)

SpecLease == InitLease /\ [][NextLease]_vars

\* A connected client that publishes and consumes while the connection can be
\* lost and re-established and the client can be shut down.
InitMsgs ==
  /\ options \in PoolOptions
  /\ limits = [conns |-> MsgMaxConns, chans |-> MsgMaxChans, tasks |-> MsgMaxTasks,
               poolTasks |-> 0, shutdownCalls |-> 0, publishes |-> MaxPublishes,
               deliveries |-> MaxDeliveries, poolLog |-> 0,
               attempts |-> MaxAttempts, eventLog |-> 0,
               saturate |-> FALSE]
  /\ Connected

NextMsgs ==
  \/ ChannelOperationCall("publish")
  \/ \E i \in 1..Len(publishes), ok \in BOOLEAN : PublishConfirmed(i, ok)
  \/ \E i \in 1..Len(publishes) : PublishTimeout(i)
  \/ DeliverAuto
  \/ \E m \in 1..Len(deliveries), how \in HandlerEvents : HandlerEvent(m, how)
  \/ \E k \in connOpen : ConnectionLost(k, FALSE)
  \/ ReconnectStep
  \/ GracefulShutdownCall
  \/ ShutdownStep

SpecMsgs == InitMsgs /\ [][NextMsgs]_vars

\* A connected client that calls publish() and sendToQueue(); the broker may
\* confirm a message or not.
InitSend ==
  /\ options \in PoolOptions
  /\ limits = [conns |-> SendMaxConns, chans |-> SendMaxChans, tasks |-> SendMaxTasks,
               poolTasks |-> 0, shutdownCalls |-> 0, publishes |-> SendMaxPublishes,
               deliveries |-> 0, poolLog |-> 0,
               attempts |-> MaxAttempts, eventLog |-> 0,
               saturate |-> FALSE]
  /\ Connected

NextSend ==
  \/ \E op \in {"publish", "sendToQueue"} : ChannelOperationCall(op)
  \/ \E i \in 1..Len(publishes), ok \in BOOLEAN : PublishConfirmed(i, ok)
  \/ \E i \in 1..Len(publishes) : PublishTimeout(i)

\* A timer that is armed fires.
SpecSend ==
  InitSend /\ [][NextSend]_vars /\ WF_vars(\E i \in 1..Len(publishes) : PublishTimeout(i))

\* publish() calls on a connected client whose failures start reconnect().
InitReject ==
  /\ options \in PoolOptions
  /\ limits = [conns |-> RejectMaxConns, chans |-> RejectMaxChans, tasks |-> RejectMaxTasks,
               poolTasks |-> 0, shutdownCalls |-> 0, publishes |-> RejectMaxPublishes,
               deliveries |-> 0, poolLog |-> 0,
               attempts |-> MaxAttempts, eventLog |-> 0,
               saturate |-> TRUE]
  /\ Connected

NextReject ==
  \/ ChannelOperationCall("publish")
  \/ \E i \in 1..Len(publishes), ok \in BOOLEAN : PublishConfirmed(i, ok)
  \/ \E i \in 1..Len(publishes) : PublishTimeout(i)
  \/ \E i \in 1..Len(publishes) : PublishReconnectReturned(i)
  \/ ReconnectStep

\* Every timer fires, every suspended call resumes and the driver settles every
\* request; the broker may refuse each of them.
SpecReject ==
  /\ InitReject /\ [][NextReject]_vars
  /\ WF_vars(\E i \in 1..Len(publishes) : PublishTimeout(i))
  /\ WF_vars(\E i \in 1..Len(publishes) : PublishReconnectReturned(i))
  /\ WF_vars(\E f \in Frames : ForceCleanupChannelsClosed(f))
  /\ WF_vars(\E f \in Frames : ForceCleanupDefaultClosed(f))
  /\ WF_vars(\E f \in Frames : ForceCleanupConnectionClosed(f))
  /\ WF_vars(\E f \in Frames : ReconnectDelayElapsed(f))
  /\ WF_vars(\E f \in Frames : NodeConnected(f) \/ NodeConnectFailed(f))
  /\ WF_vars(\E f \in Frames : DefaultChannelCreated(f) \/ DefaultChannelFailed(f))
  /\ WF_vars(\E f \in Frames : PoolChannelCreated(f) \/ PoolChannelFailed(f))

\* options.circuitBreaker.resetTimeout has passed since the breaker's last
\* failure. No code reads the clock, so the step changes nothing else.
ResetTimeoutElapsed ==
  /\ circuitBreaker.lastFailure = "set"
  /\ circuitBreaker' = [circuitBreaker EXCEPT !.lastFailure = "elapsed"]
  /\ lastCall' = NoCall
  /\ UNCHANGED <<options, limits, extVars, poolVars, ackVars, msgVars, driverVars, historyVars,
                 connection, defaultChannel, reconnecting, connectionPromise,
                 reconnectAttempts, channels, inUse, shutdownInProgress, intervalTimers,
                 promises, tasks>>

BreakerOptions ==
  [maxChannels : {1, 2}, failureThreshold : {1, 2}, maxReconnectAttempts : {-1},
   maxRetries : {1}]

\* A new client whose connect() calls succeed or fail while time passes.
InitBreaker ==
  /\ options \in BreakerOptions
  /\ limits = [conns |-> BreakerMaxConns, chans |-> BreakerMaxChans, tasks |-> BreakerMaxTasks,
               poolTasks |-> 0, shutdownCalls |-> 0, publishes |-> 0, deliveries |-> 0,
               poolLog |-> 0, attempts |-> MaxAttempts, eventLog |-> 0,
               saturate |-> FALSE]
  /\ InitClient /\ InitDriver /\ InitPool
  /\ lastCall = NoCall
  /\ InitAck /\ InitMsg /\ InitExt

NextBreaker ==
  \/ ConnectCall
  \/ \E f \in Frames : EstablishConnected(f)
  \/ \E f \in Frames : EstablishConnectFailed(f)
  \/ \E f \in Frames : DefaultChannelCreated(f)
  \/ \E f \in Frames : DefaultChannelFailed(f)
  \/ \E f \in Frames : PoolChannelCreated(f)
  \/ \E f \in Frames : PoolChannelFailed(f)
  \/ ResetTimeoutElapsed

SpecBreaker == InitBreaker /\ [][NextBreaker]_vars

\* A node becomes reachable and stays so: from now on no driver call fails
\* and no connection or channel is lost.
NodeBecomesReachable ==
  /\ ~cluster.reachable
  /\ cluster' = [cluster EXCEPT !.reachable = TRUE]
  /\ lastCall' = NoCall
  /\ UNCHANGED <<options, limits, clientVars, historyVars, driverVars, poolVars, ackVars,
                 msgVars, backoff, shared>>

\* What the driver does while no node is reachable for good.
UnreachableStep ==
  \/ \E k \in connOpen, e \in BOOLEAN : ConnectionLost(k, e)
  \/ DefaultChannelError
  \/ \E f \in Frames : NodeConnectFailed(f)
  \/ \E f \in Frames : DefaultChannelFailed(f)
  \/ \E f \in Frames : PoolChannelFailed(f)
  \/ \E f \in Frames : SweepDefaultFailed(f)
  \/ \E f \in Frames : SweepPoolFailed(f)

\* The steps of the reconnect loop, of the health check and of the channel
\* sweep in which no driver call fails.
HealStep ==
  \/ \E f \in Frames : ForceCleanupChannelsClosed(f)
  \/ \E f \in Frames : ForceCleanupDefaultClosed(f)
  \/ \E f \in Frames : ForceCleanupConnectionClosed(f)
  \/ \E f \in Frames : ReconnectDelayElapsed(f)
  \/ \E f \in Frames : NodeConnected(f)
  \/ \E f \in Frames : DefaultChannelCreated(f)
  \/ \E f \in Frames : PoolChannelCreated(f)
  \/ \E h \in BOOLEAN : HealthCheckTick(h)
  \/ SweepTick
  \/ \E f \in Frames : SweepDefaultCreated(f)
  \/ \E f \in Frames : SweepPoolCreated(f)

\* A connected client without a cap on its reconnect attempts whose nodes
\* fail for a while and then become reachable for good.
InitHeal ==
  /\ options \in PoolOptions
  /\ limits = [conns |-> HealMaxConns, chans |-> HealMaxChans, tasks |-> HealMaxTasks,
               poolTasks |-> HealMaxPoolTasks, shutdownCalls |-> 0, publishes |-> 0,
               deliveries |-> 0, poolLog |-> 0, attempts |-> HealMaxAttempts,
               eventLog |-> 1,
               saturate |-> FALSE]
  /\ Connected

NextHeal ==
  \/ ~cluster.reachable /\ UnreachableStep
  \/ NodeBecomesReachable
  \/ HealStep

\* Every timer fires and the driver settles every call.
SpecHeal ==
  /\ InitHeal /\ [][NextHeal]_vars
  /\ WF_vars(\E f \in Frames : ForceCleanupChannelsClosed(f))
  /\ WF_vars(\E f \in Frames : ForceCleanupDefaultClosed(f))
  /\ WF_vars(\E f \in Frames : ForceCleanupConnectionClosed(f))
  /\ WF_vars(\E f \in Frames : ReconnectDelayElapsed(f))
  /\ WF_vars(\E f \in Frames : NodeConnected(f))
  /\ WF_vars(\E f \in Frames : DefaultChannelCreated(f))
  /\ WF_vars(\E f \in Frames : PoolChannelCreated(f))
  /\ WF_vars(HealthCheckTick(FALSE))
  /\ WF_vars(SweepTick)
  /\ WF_vars(\E f \in Frames : SweepDefaultCreated(f))
  /\ WF_vars(\E f \in Frames : SweepPoolCreated(f))

\* A connected client with a cap on its reconnect attempts, or with none,
\* that loses its connection and reconnects; the events it emits are counted.
RetryOptions ==
  [maxChannels : {1}, failureThreshold : {2}, maxReconnectAttempts : {-1, 2},
   maxRetries : {1}]

InitRetry ==
  /\ options \in RetryOptions
  /\ limits = [conns |-> RetryMaxConns, chans |-> RetryMaxChans, tasks |-> RetryMaxTasks,
               poolTasks |-> 0, shutdownCalls |-> 0, publishes |-> 0, deliveries |-> 0,
               poolLog |-> 0, attempts |-> RetryMaxAttempts, eventLog |-> 1,
               saturate |-> FALSE]
  /\ Connected

NextRetry ==
  \/ \E k \in 1..nconn, withError \in BOOLEAN : ConnectionLost(k, withError)
  \/ HandleError
  \/ ReconnectStep

SpecRetry == InitRetry /\ [][NextRetry]_vars

\* ------------------------------------------------------------ shared client

\* An initializeSharedClient() call: the promise it returned is pending on
\* the initialization of client, or settled; connectWas is the state of that
\* client's connect() when the promise resolved.
SharedCall(state, client, connectWas) ==
  [state |-> state, client |-> client, connectWas |-> connectWas]

\* initializeSharedClient() up to its first await: the existing instance is
\* returned, or the initialization in progress is awaited, or a client is
\* created and stored, its connect() is called and the initialization
\* promise is awaited.
initializeSharedClient(m) ==
  IF m.sharedClient # 0
    THEN [m EXCEPT !.calls = Append(@, SharedCall("resolved", m.sharedClient,
                                                  m.clients[m.sharedClient]))]
  ELSE IF m.isInitializing /\ m.initializationPromise # 0
    THEN [m EXCEPT !.calls = Append(@, SharedCall("pending", m.initializationPromise, "none"))]
  ELSE LET client == Len(m.clients) + 1
       IN [m EXCEPT !.isInitializing = TRUE, !.initializationPromise = client,
                    !.sharedClient = client, !.clients = Append(@, "pending"),
                    !.calls = Append(@, SharedCall("pending", client, "none"))]

InitializeSharedClientCall ==
  /\ Len(shared.calls) < MaxSharedCalls
  /\ shared' = initializeSharedClient(shared)
  /\ UNCHANGED <<modelVars, backoff, cluster>>

\* connect() of the client being initialized settles: the catch block nulls
\* sharedClient, the finally block clears the flag and the promise, and the
\* calls that await the initialization promise return sharedClient or throw.
SharedConnectSettled(ok) ==
  /\ shared.initializationPromise # 0
  /\ LET client == shared.initializationPromise
         settled == IF ok THEN "resolved" ELSE "rejected"
     IN shared' = [shared EXCEPT
          !.sharedClient = IF ok THEN @ ELSE 0,
          !.isInitializing = FALSE,
          !.initializationPromise = 0,
          !.clients[client] = settled,
          !.calls = [i \in 1..Len(shared.calls) |->
                       IF shared.calls[i].state = "pending" /\ shared.calls[i].client = client
                         THEN SharedCall(settled, IF ok THEN shared.sharedClient ELSE 0,
                                         IF ok THEN settled ELSE "none")
                         ELSE shared.calls[i]]]
  /\ UNCHANGED <<modelVars, backoff, cluster>>

\* A process that calls initializeSharedClient() several times while the
\* connect() of the clients it creates succeeds or fails.
InitShared ==
  /\ options \in Options
  /\ limits = [conns |-> 0, chans |-> 0, tasks |-> 0, poolTasks |-> 0, shutdownCalls |-> 0,
               publishes |-> 0, deliveries |-> 0, poolLog |-> 0,
               attempts |-> MaxAttempts, eventLog |-> 0,
               saturate |-> FALSE]
  /\ InitClient /\ InitDriver /\ InitPool
  /\ lastCall = NoCall
  /\ InitAck /\ InitMsg
  /\ backoff = NoBackoff
  /\ cluster = NewCluster("round-robin", 0, FALSE)
  /\ shared = NoSharedClient

NextShared ==
  \/ InitializeSharedClientCall
  \/ \E ok \in BOOLEAN : SharedConnectSettled(ok)

SpecShared == InitShared /\ [][NextShared]_vars

\* ------------------------------------------------------------ reconnect delay

\* Delays are kept in units of 1 / DelayScale ms, so that the jitter
\* exponentialDelay * 0.2 * (Math.random() * 2 - 1) is an integer.
DelayScale == 100 * JitterSteps

RECURSIVE Pow2(_)
Pow2(n) == IF n = 0 THEN 1 ELSE 2 * Pow2(n - 1)

Min(a, b) == IF a <= b THEN a ELSE b
Max(a, b) == IF a >= b THEN a ELSE b

\* validateOptions(): a reconnectDelay that is set (truthy) has to lie between
\* MIN_RECONNECT_DELAY and MAX_RECONNECT_DELAY.
validReconnectDelay(d) ==
  d # 0 => (d >= MIN_RECONNECT_DELAY /\ d <= MAX_RECONNECT_DELAY)

\* Math.max(baseDelay, Math.min(exponentialDelay + jitter, maxDelay)), scaled.
clampDelay(baseDelay, jittered) ==
  Max(baseDelay * DelayScale, Min(jittered, maxDelay * DelayScale))

\* calculateReconnectDelay() for reconnectAttempts = attempts and
\* Math.random() = k / JitterSteps; the result is scaled by DelayScale.
calculateReconnectDelay(reconnectDelay, exponentialBackoff, attempts, k) ==
  LET baseDelay == IF reconnectDelay # 0 THEN reconnectDelay ELSE baseDelayFallback
      exponentialDelay == Min(baseDelay * Pow2(attempts), maxDelay)
      jitter == exponentialDelay * JitterPercent * (2 * k - JitterSteps)
  IN IF ~exponentialBackoff
       THEN baseDelay * DelayScale
       ELSE clampDelay(baseDelay, exponentialDelay * DelayScale + jitter)

\* The reconnect loop computes the delay before its next attempt.
CalculateReconnectDelay(attempts, k) ==
  /\ backoff' = [backoff EXCEPT
       !.called = TRUE, !.attempts = attempts, !.jitter = k,
       !.delay = calculateReconnectDelay(backoff.reconnectDelay, backoff.exponentialBackoff,
                                         attempts, k)]
  /\ UNCHANGED <<modelVars, cluster, shared>>

\* The values of options.reconnectDelay that are tried: unset or 0, the two
\* limits, the default, and one value beyond each limit.
ReconnectDelays ==
  {0, MIN_RECONNECT_DELAY - 1, MIN_RECONNECT_DELAY, DefaultReconnectDelay,
   MAX_RECONNECT_DELAY, MAX_RECONNECT_DELAY + 1}

\* A client constructed with any reconnectDelay that validateOptions() accepts.
InitBackoff ==
  /\ options \in Options
  /\ limits = [conns |-> 0, chans |-> 0, tasks |-> 0, poolTasks |-> 0, shutdownCalls |-> 0,
               publishes |-> 0, deliveries |-> 0, poolLog |-> 0,
               attempts |-> MaxAttempts, eventLog |-> 0,
               saturate |-> FALSE]
  /\ InitClient /\ InitDriver /\ InitPool
  /\ lastCall = NoCall
  /\ InitAck /\ InitMsg
  /\ shared = NoSharedClient
  /\ cluster = NewCluster("round-robin", 0, FALSE)
  /\ \E d \in ReconnectDelays, e \in BOOLEAN :
       /\ validReconnectDelay(d)
       /\ backoff = [NoBackoff EXCEPT !.reconnectDelay = d, !.exponentialBackoff = e]

NextBackoff ==
  \E attempts \in 0..MaxBackoffAttempts, k \in 0..(JitterSteps - 1) :
    CalculateReconnectDelay(attempts, k)

SpecBackoff == InitBackoff /\ [][NextBackoff]_vars

\* ------------------------------------------------------------ node registry

\* activeNodes.has(url)
hasNode(activeNodes, url) == \E i \in 1..Len(activeNodes) : activeNodes[i].url = url

\* activeNodes.get(url) || { healthy: true, failureCount: 0 }
getNode(activeNodes, url) ==
  IF hasNode(activeNodes, url)
    THEN activeNodes[CHOOSE i \in 1..Len(activeNodes) : activeNodes[i].url = url]
    ELSE [url |-> url, healthy |-> TRUE, failureCount |-> 0]

\* activeNodes.set(url, status): a Map keeps the position of a key it holds
\* and appends a new key.
setNode(activeNodes, status) ==
  IF hasNode(activeNodes, status.url)
    THEN [i \in 1..Len(activeNodes) |->
            IF activeNodes[i].url = status.url THEN status ELSE activeNodes[i]]
    ELSE Append(activeNodes, status)

\* A variant that decides healthy before it counts the failure.
failedStatusBeforeCounting(status) ==
  [status EXCEPT !.failureCount = @ + 1, !.healthy = (status.failureCount < UnhealthyAfter)]

\* The status after a failed driver connect: failureCount++, and healthy
\* while fewer than UnhealthyAfter failures.
failedStatus(status) ==
  [status EXCEPT !.failureCount = @ + 1, !.healthy = (status.failureCount + 1 < UnhealthyAfter)]

\* The registry after a driver connect to url has succeeded or failed.
nodeChecked(activeNodes, url, ok) ==
  IF ok
    THEN setNode(activeNodes, [url |-> url, healthy |-> TRUE, failureCount |-> 0])
    ELSE setNode(activeNodes, failedStatus(getNode(activeNodes, url)))

\* tryNextClusterNode(): the registry is filled when it is empty.
initializedNodes(activeNodes) ==
  IF activeNodes = <<>>
    THEN [i \in 1..Len(Urls) |-> [url |-> Urls[i], healthy |-> TRUE, failureCount |-> 0]]
    ELSE activeNodes

\* tryNextClusterNode(): the healthy nodes, or every node when none is healthy.
nodesToTry(activeNodes) ==
  LET healthy == SelectSeq(activeNodes, LAMBDA st : st.healthy)
  IN IF healthy # <<>> THEN [i \in 1..Len(healthy) |-> healthy[i].url] ELSE Urls

\* [...nodes.slice(k), ...nodes.slice(0, k)]
rotate(nodes, k) == SubSeq(nodes, k + 1, Len(nodes)) \o SubSeq(nodes, 1, k)

\* getSortedNodes() without priorityNodes: the orders it can return.
getSortedNodes(strategy, currentUrlIndex, nodes) ==
  IF strategy = "round-robin"
    THEN {rotate(nodes, currentUrlIndex % Len(nodes))}
    ELSE {p \in [1..Len(nodes) -> {nodes[i] : i \in 1..Len(nodes)}] :
            \A i, j \in 1..Len(nodes) : i # j => p[i] # p[j]}

\* getNextUrl(): the urls it can return; none when urls[currentUrlIndex] is
\* undefined and it throws 'Invalid URL configuration'.
getNextUrl(strategy, currentUrlIndex) ==
  IF strategy = "random" THEN {Urls[i] : i \in 1..Len(Urls)}
  ELSE IF currentUrlIndex < Len(Urls) THEN {Urls[currentUrlIndex + 1]} ELSE {}

\* A connect or reconnect attempt starts.
attemptStarted(c) ==
  [c EXCEPT !.started = @ + 1, !.log = IF c.logging THEN Append(@, <<>>) ELSE @]

\* The driver connect of the running attempt is appended to the log.
logged(c, url, ok) ==
  IF c.logging
    THEN [c EXCEPT !.log[Len(c.log)] = Append(@, [url |-> url, ok |-> ok])]
    ELSE c

ClusterStep == UNCHANGED <<modelVars, backoff, shared>>

\* connect() -> establishConnection(): the first url is selected, or
\* getNextUrl() throws and the call is rejected (url "invalid").
ClusterConnect ==
  /\ cluster.conn.pc = "idle"
  /\ cluster.started < cluster.budget
  /\ LET urls == getNextUrl(cluster.failoverStrategy, cluster.currentUrlIndex)
     IN IF urls = {}
          THEN cluster' = [attemptStarted(cluster) EXCEPT !.conn.url = "invalid"]
          ELSE \E url \in urls :
                 cluster' = [attemptStarted(cluster) EXCEPT
                   !.currentUrlIndex = (@ + 1) % Len(Urls),
                   !.conn = [pc |-> "establish", url |-> url, retries |-> 0,
                             nodes |-> <<>>]]
  /\ ClusterStep

\* establishConnection(): amqplib.connect(url) settles; after a failure the
\* next url is selected while retries < MAXIMUM_INITIAL_CONNECTION_RETRIES.
ClusterEstablishAttempt(ok) ==
  /\ cluster.conn.pc = "establish"
  /\ LET c == cluster.conn
         retries == c.retries + 1
         l == logged(cluster, c.url, ok)
     IN IF ok
          THEN cluster' = [l EXCEPT !.conn = [c EXCEPT !.pc = "connected", !.url = "none",
                                                         !.retries = 0]]
          ELSE IF retries < MAXIMUM_INITIAL_CONNECTION_RETRIES
            THEN \E url \in getNextUrl(cluster.failoverStrategy, cluster.currentUrlIndex) :
                   cluster' = [l EXCEPT
                     !.currentUrlIndex = (@ + 1) % Len(Urls),
                     !.conn.url = url, !.conn.retries = retries]
            ELSE cluster' = [l EXCEPT !.conn = [c EXCEPT !.pc = "idle", !.url = "none",
                                                           !.retries = 0]]
  /\ ClusterStep

\* The connection is lost and reconnect() starts.
ClusterConnectionLost ==
  /\ cluster.conn.pc = "connected"
  /\ cluster' = [cluster EXCEPT !.conn.pc = "reconnect"]
  /\ ClusterStep

\* reconnect() ends without a connection (its attempts are used up, or the
\* client was shut down): the client is idle again.
ClusterReconnectGaveUp ==
  /\ cluster.conn.pc = "reconnect"
  /\ cluster' = [cluster EXCEPT !.conn.pc = "idle"]
  /\ ClusterStep

\* reconnect() -> tryNextClusterNode(): the nodes to try are selected and
\* sorted; with round-robin the cursor is incremented.
ClusterTryNextNode ==
  /\ cluster.conn.pc = "reconnect"
  /\ cluster.started < cluster.budget
  /\ LET activeNodes == initializedNodes(cluster.activeNodes)
     IN \E sorted \in getSortedNodes(cluster.failoverStrategy, cluster.currentUrlIndex,
                                     nodesToTry(activeNodes)) :
          cluster' = [attemptStarted(cluster) EXCEPT
            !.activeNodes = activeNodes,
            !.currentUrlIndex = IF cluster.failoverStrategy = "round-robin" THEN @ + 1 ELSE @,
            !.conn.pc = "trying", !.conn.nodes = sorted]
  /\ ClusterStep

\* tryNextClusterNode(): amqplib.connect(url) settles for the next node of
\* the sorted list; after the last failure the reconnect loop goes round.
ClusterNodeAttempt(ok) ==
  /\ cluster.conn.pc = "trying"
  /\ LET url == Head(cluster.conn.nodes)
     IN /\ ok \/ getNode(cluster.activeNodes, url).failureCount < MaxFailureCount
        /\ cluster' = [logged(cluster, url, ok) EXCEPT
             !.activeNodes = nodeChecked(@, url, ok),
             !.conn.nodes = IF ok THEN <<>> ELSE Tail(@),
             !.conn.pc = IF ok THEN "connected"
                         ELSE IF Tail(cluster.conn.nodes) = <<>> THEN "reconnect" ELSE @]
  /\ ClusterStep

\* The interval of startNodeHealthCheck() fires: checkClusterNodesHealth()
\* starts with the first url.
ClusterSweepTick ==
  /\ cluster.sweep = 0
  /\ cluster' = [cluster EXCEPT !.sweep = 1]
  /\ ClusterStep

\* checkClusterNodesHealth(): the probe of the next url settles.
ClusterSweepProbe(ok) ==
  /\ cluster.sweep > 0
  /\ LET url == Urls[cluster.sweep]
     IN /\ ok \/ getNode(cluster.activeNodes, url).failureCount < MaxFailureCount
        /\ cluster' = [cluster EXCEPT
             !.activeNodes = nodeChecked(@, url, ok),
             !.sweep = IF @ = Len(Urls) THEN 0 ELSE @ + 1]
  /\ ClusterStep

\* A client with three nodes that connects, loses its connection and
\* reconnects while the registry is swept.
InitCluster ==
  /\ options \in Options
  /\ limits = [conns |-> 0, chans |-> 0, tasks |-> 0, poolTasks |-> 0, shutdownCalls |-> 0,
               publishes |-> 0, deliveries |-> 0, poolLog |-> 0,
               attempts |-> MaxAttempts, eventLog |-> 0,
               saturate |-> FALSE]
  /\ InitClient /\ InitDriver /\ InitPool
  /\ lastCall = NoCall
  /\ InitAck /\ InitMsg
  /\ shared = NoSharedClient
  /\ backoff = NoBackoff
  /\ \E strategy \in {"round-robin", "random"} :
       cluster = NewCluster(strategy, MaxClusterAttempts, FALSE)

\* The same client with the round-robin strategy; the driver connects of
\* its attempts are logged.
InitFailover ==
  /\ options \in Options
  /\ limits = [conns |-> 0, chans |-> 0, tasks |-> 0, poolTasks |-> 0, shutdownCalls |-> 0,
               publishes |-> 0, deliveries |-> 0, poolLog |-> 0,
               attempts |-> MaxAttempts, eventLog |-> 0,
               saturate |-> FALSE]
  /\ InitClient /\ InitDriver /\ InitPool
  /\ lastCall = NoCall
  /\ InitAck /\ InitMsg
  /\ shared = NoSharedClient
  /\ backoff = NoBackoff
  /\ cluster = NewCluster("round-robin", FailoverMaxAttempts, TRUE)

NextCluster ==
  \/ ClusterConnect
  \/ \E ok \in BOOLEAN : ClusterEstablishAttempt(ok)
  \/ ClusterConnectionLost
  \/ ClusterReconnectGaveUp
  \/ ClusterTryNextNode
  \/ \E ok \in BOOLEAN : ClusterNodeAttempt(ok)
  \/ ClusterSweepTick
  \/ \E ok \in BOOLEAN : ClusterSweepProbe(ok)

SpecCluster == InitCluster /\ [][NextCluster]_vars

SpecFailover == InitFailover /\ [][NextCluster]_vars

\* A connected client that publishes batches while its default channel can
\* fail and the client reconnects.
InitBatch ==
  /\ options \in PoolOptions
  /\ limits = [conns |-> BatchMaxConns, chans |-> BatchMaxChans, tasks |-> BatchMaxTasks,
               poolTasks |-> 0, shutdownCalls |-> 0, publishes |-> MaxBatches,
               deliveries |-> 0, poolLog |-> 0,
               attempts |-> MaxAttempts, eventLog |-> 0,
               saturate |-> FALSE]
  /\ Connected

NextBatch ==
  \/ \E n \in BatchSizes : PublishBatchCall(n)
  \/ \E i \in 1..Len(batches), ok \in BOOLEAN : BatchConfirmed(i, ok)
  \/ DefaultChannelError
  \/ ReconnectStep

SpecBatch == InitBatch /\ [][NextBatch]_vars

\* A connected client that publishes and consumes while gracefulShutdown() is
\* called a bounded number of times.
InitDrain ==
  /\ options \in PoolOptions
  /\ limits = [conns |-> DrainMaxConns, chans |-> DrainMaxChans, tasks |-> DrainMaxTasks,
               poolTasks |-> 0, shutdownCalls |-> DrainMaxCalls,
               publishes |-> DrainMaxPublishes, deliveries |-> DrainMaxDeliveries,
               poolLog |-> 0,
               attempts |-> MaxAttempts, eventLog |-> 0,
               saturate |-> FALSE]
  /\ Connected

DrainStep ==
  \/ \E f \in Frames : ShutdownDrainPoll(f)
  \/ ShutdownStep

NextDrain ==
  \/ shutdownLog.calls < limits.shutdownCalls /\ GracefulShutdownCall
  \/ DrainStep
  \/ ChannelOperationCall("publish")
  \/ \E i \in 1..Len(publishes), ok \in BOOLEAN : PublishConfirmed(i, ok)
  \/ \E i \in 1..Len(publishes) : PublishTimeout(i)
  \/ DeliverAuto
  \/ \E m \in 1..Len(deliveries), how \in HandlerEvents : HandlerEvent(m, how)

\* The timers of the drain wait fire and the driver settles every close() that
\* gracefulShutdown() awaits.
SpecDrain == InitDrain /\ [][NextDrain]_vars /\ WF_vars(DrainStep)

\* ------------------------------------------------------------------ claims

\* The promise of the establishConnection() activation in flight, 0 if none.
InFlight ==
  LET e == {f \in Frames : f.kind = "establish"}
  IN IF e = {} THEN 0 ELSE (CHOOSE f \in e : TRUE).p

\* The step is a connect() call.
IsConnectCall == lastCall'.op = "connect"

\* C1: the pool never holds more than maxChannels channels.
C1_PoolWithinMax == Len(channels) <= options.maxChannels

\* C2: no pool channel is leased to two callers at once: between the getChannel()
\* that returned it and its holder's releaseChannel(), no other caller gets it.
C2_ExclusiveLease ==
  \A a, b \in Callers : a # b => held[a] \cap held[b] = {}

\* C3: a message is settled at most once: the default channel gets at most one
\* settlement call for it, and that call is the first one the handler made.
C3_SettledAtMostOnce ==
  \A m \in 1..Len(acknowledged) :
    /\ Len(settlements[m]) <= 1
    /\ settlements[m] # <<>> => settlements[m][1] = actionCalls[m][1]
    /\ acknowledged[m] <=> actionCalls[m] # <<>>
C3_Witness ==
  \E m \in 1..Len(acknowledged) :
    /\ Len(actionCalls[m]) = MaxActionCalls
    /\ actionCalls[m][1].op = "nack" /\ actionCalls[m][2].op = "ack"
    /\ settlements[m] = <<actionCalls[m][1]>>

\* C4: the breaker is open exactly when the consecutive-failure count has
\* reached the configured failure threshold.
C4_BreakerOpenIffThreshold ==
  circuitBreaker.isOpen <=> circuitBreaker.failures >= options.failureThreshold
C4_Witness ==
  /\ options.failureThreshold = 2
  /\ circuitBreaker.isOpen
  /\ circuitBreaker.failures = 2
  /\ promises = <<"rejected", "rejected">>

\* C5: a connect() call made while the breaker is open fails at once with the
\* 'Circuit breaker is open' error: it returns no promise, starts no connection
\* attempt and changes neither the client nor the driver.
C5_OpenBreakerFailsFast ==
  [][(IsConnectCall /\ circuitBreaker.isOpen)
       => /\ lastCall'.outcome = "CircuitBreakerOpen"
          /\ lastCall'.promise = 0
          /\ UNCHANGED <<clientVars, driverVars>>]_vars
C5_Witness ==
  /\ options.failureThreshold = 2
  /\ lastCall.outcome = "CircuitBreakerOpen"
  /\ circuitBreaker.failures = 2
  /\ nconn = 0
  /\ promises = <<"rejected", "rejected">>

\* C6: after a connect() call that succeeded (the promise it returned is
\* resolved) the breaker is closed, the failure count is 0 and the last-failure
\* time is null.
C6_SuccessfulConnectResetsBreaker ==
  (lastCall.promise # 0 /\ promises[lastCall.promise] = "resolved")
    => circuitBreaker = [failures |-> 0, isOpen |-> FALSE, lastFailure |-> "null"]

\* C7: a connect() call made while the client is connected starts no connection
\* attempt, and one made while an attempt is in flight starts no second attempt
\* and returns the promise of the attempt in flight.
C7_ConnectIdempotent ==
  [][IsConnectCall
       => /\ isConnectionOpen(connection) => UNCHANGED <<tasks, driverVars>>
          /\ InFlight # 0 => /\ UNCHANGED <<tasks, driverVars>>
                             /\ lastCall'.outcome = "joined"
                             /\ lastCall'.promise = InFlight]_vars
C7_Witness ==
  /\ lastCall.outcome = "joined"
  /\ lastCall.promise = InFlight
  /\ InFlight # 0
  /\ promises[InFlight] = "pending"

\* C8: at most one driver connection is open at any time.
C8_OneActiveConnection == Cardinality(connOpen) <= 1

\* C9: connect, reconnect and shutdown cycles exclude each other: at most one
\* of them is in progress at any time.
C9_OneCycleAtATime == Count(tasks, SupervisorKinds) <= 1

\* C10: once set, the shutdown flag never returns to false.
C10_ShutdownLatch == [][shutdownInProgress => shutdownInProgress']_vars

\* C11: after close() or gracefulShutdown() has returned, and until connect() is
\* called again, no interval timer is registered, no reconnect cycle runs and
\* the client has no open connection.
C11_QuietAfterClose ==
  terminated # "no" => /\ intervalTimers = [health |-> 0, sweep |-> 0]
                       /\ Count(tasks, {"reconnect"}) = 0
                       /\ ~isConnectionOpen(connection)

\* C13: a close() call made after close() has returned changes neither the
\* client nor the driver: it closes nothing and returns at once.
C13_CloseAgainIsNoOp ==
  [][(lastCall'.op = "close" /\ terminated = "close")
       => /\ lastCall'.outcome = "returned"
          /\ UNCHANGED <<clientVars, driverVars>>]_vars

C12_NotConnectedFailsFast ==
  [][(lastCall'.op \in ChannelOperations
        /\ ~(isConnectionOpen(connection) /\ isChannelOpen(defaultChannel)))
       => /\ lastCall'.outcome = "NotConnected"
          /\ lastCall'.channel = 0
          /\ UNCHANGED <<clientVars, driverVars, msgVars>>]_vars
C12_Witness ==
  /\ lastCall.op = "publish" /\ lastCall.outcome = "NotConnected"
  /\ connection # 0 /\ defaultChannel # 0
  /\ ~isConnectionOpen(connection)
\* C15: gracefulShutdown() always terminates: the drain wait ends at the cap at
\* the latest, also when messagesSent never equals messagesReceived; then the
\* channels and the connection are closed and the call returns.
C15_ShutdownTerminates ==
  (Count(tasks, {"shutdown"}) > 0) ~> (Count(tasks, {"shutdown"}) = 0)

\* A shutdown whose drain wait ended at the cap, with a message still in
\* flight, is closing the pool channels.
C15_Witness ==
  /\ metrics.messagesSent # metrics.messagesReceived
  /\ \E f \in Frames : f.pc = "gs_chan" /\ f.n = MaxPolls
  /\ <<"channel", 2>> \in shutdownLog.closed

\* C16 as stated: after a releaseChannel(c) by the lease holder, with c still
\* open, the next getChannel() returns c, at once and without creating a channel.
C16_NextGetsReleased ==
  [][(/\ lastCall.op = "releaseChannel" /\ lastCall.outcome = "released"
      /\ isChannelOpen(lastCall.channel)
      /\ lastCall'.op = "getChannel"
      /\ lastCall'.outcome \in {"leased", "creating", "waiting", "NotConnected"})
       => /\ lastCall'.outcome = "leased"
          /\ lastCall'.channel = lastCall.channel]_vars

\* C16, amended: the holder's releaseChannel(c) takes c out of the in-use set,
\* and when c is still open the next getChannel() returns at once, without
\* creating a channel and without waiting, the first free open channel of the
\* pool: c itself unless a channel before it in the pool is free too.
C16_ReleasedIsReused ==
  [][/\ (lastCall'.op = "releaseChannel" /\ lastCall'.outcome = "released")
          => lastCall'.channel \notin inUse'
     /\ (/\ lastCall.op = "releaseChannel" /\ lastCall.outcome = "released"
         /\ isChannelOpen(lastCall.channel)
         /\ lastCall'.op = "getChannel"
         /\ lastCall'.outcome \in {"leased", "creating", "waiting", "NotConnected"})
          => LET r == lastCall.channel
                 free == {i \in 1..Len(channels) :
                            isChannelOpen(channels[i]) /\ channels[i] \notin inUse}
             IN /\ lastCall'.outcome = "leased"
                /\ \E i \in free : /\ channels[i] = lastCall'.channel
                                   /\ \A j \in free : i <= j
                /\ (\A j \in free : \A i \in free : channels[i] = r => i <= j)
                     => lastCall'.channel = r
                /\ lastCall'.channel \in inUse'
                /\ nchan' = nchan /\ tasks' = tasks /\ channels' = channels]_vars

\* With the first pool channel leased to another caller, a caller that released
\* the second one has got it again.
C16_Witness ==
  \E a, b \in Callers :
    /\ a # b
    /\ options.maxChannels = 2 /\ Len(channels) = 2
    /\ held[a] = {channels[1]}
    /\ released[b] = channels[2] /\ held[b] = {channels[2]}
    /\ lastCall = PoolCall("getChannel", "leased", channels[2])
    /\ inUse = {channels[1], channels[2]}

\* C17: a second releaseChannel(c) for a lease that was released changes neither
\* the pool nor its in-use set, whatever happened since the first release.
C17_ReleaseIdempotent ==
  [][(lastCall'.op = "releaseChannel" /\ lastCall'.outcome = "again")
       => UNCHANGED <<channels, inUse>>]_vars

C19_SettledExactlyOnce ==
  \A m \in 1..Len(deliveries) :
    LET e == deliveries[m] IN
    e.events # <<>>
      => /\ Len(e.settlements) = 1
         /\ e.settlements[1].op = (IF e.events[1] = "resolved" THEN "ack" ELSE "nack")
         /\ e.settlements[1].allUpTo = FALSE
         /\ e.settlements[1].requeue = (e.events[1] # "resolved")

\* C19, amended: a delivery gets at most one settlement call, none before its
\* handler race has ended, and exactly one when the default channel is set and
\* open at that moment: ack on that channel when the handler resolved first,
\* nack(msg, false, true) when it rejected or the timeout fired first. With the
\* default channel null or closed at that moment the message is not settled.
C19_SettledOnceOnOpenChannel ==
  \A m \in 1..Len(deliveries) :
    LET e == deliveries[m] IN
    /\ Len(e.settlements) <= 1
    /\ e.events = <<>> => e.settlements = <<>>
    /\ e.events # <<>> => (e.at = "open" <=> Len(e.settlements) = 1)
    /\ e.settlements # <<>>
         => /\ e.settlements[1].op = (IF e.events[1] = "resolved" THEN "ack" ELSE "nack")
            /\ e.settlements[1].allUpTo = FALSE
            /\ e.settlements[1].requeue = (e.events[1] # "resolved")
            /\ e.settlements[1].channel # 0

\* The timeout fired first and the handler resolved afterwards: the message was
\* nacked with requeue, once.
C19_Witness ==
  \E m \in 1..Len(deliveries) :
    /\ deliveries[m].events = <<"timeout", "resolved">>
    /\ deliveries[m].at = "open"
    /\ deliveries[m].settlements = <<Settlement("nack", deliveries[m].channel)>>

C21_BatchCountsSuccesses ==
  /\ \A i \in 1..Len(batches) :
       /\ batches[i].handed <= batches[i].succeeded + 1
       /\ batches[i].handed <= batches[i].size
  /\ (\A i \in 1..Len(batches) : batches[i].state \in {"resolved", "rejected"})
       => metrics.messagesSent = Confirmed(batches)

\* C22: a sendToQueue() call whose confirm never arrives does not stay
\* pending: it fails once its timeout has elapsed, as a publish() call does.
C22_SendToQueueTimesOut ==
  \A i \in 1..SendMaxPublishes :
    (i <= Len(publishes) /\ publishes[i].op = "sendToQueue" /\ publishes[i].state = "pending")
      ~> (i <= Len(publishes) /\ publishes[i].state # "pending")

\* C23: every computed reconnect delay lies between reconnectDelay and 60000
\* ms, and without exponential backoff it is reconnectDelay itself.
C23_DelayWithinBounds ==
  backoff.called =>
    /\ backoff.delay >= backoff.reconnectDelay * DelayScale
    /\ backoff.delay <= maxDelay * DelayScale
    /\ ~backoff.exponentialBackoff => backoff.delay = backoff.reconnectDelay * DelayScale

\* C24: with the round-robin strategy, when the first connect tried A and B
\* in vain and connected to C, the next reconnect tries B first.
C24_ReconnectStartsFromB ==
  (/\ cluster.failoverStrategy = "round-robin"
   /\ Len(cluster.log) >= 2
   /\ cluster.log[1] = <<[url |-> "A", ok |-> FALSE], [url |-> "B", ok |-> FALSE],
                         [url |-> "C", ok |-> TRUE]>>
   /\ cluster.log[2] # <<>>)
    => cluster.log[2][1].url = "B"

\* C25: a node with three or more failures is unhealthy, and an unhealthy
\* node becomes healthy only by a step that also resets its failureCount to
\* 0 (a successful probe or connect), however the reconnect attempts and the
\* sweep interleave.
C25_UnhealthyUntilSuccess ==
  /\ [](\A i \in 1..Len(cluster.activeNodes) :
          cluster.activeNodes[i].failureCount >= UnhealthyAfter
            => ~cluster.activeNodes[i].healthy)
  /\ [][\A i \in 1..Len(cluster.activeNodes) :
          LET url == cluster.activeNodes[i].url
          IN /\ hasNode(cluster'.activeNodes, url)
             /\ (~cluster.activeNodes[i].healthy /\ getNode(cluster'.activeNodes, url).healthy)
                  => getNode(cluster'.activeNodes, url).failureCount = 0
             /\ (~cluster.activeNodes[i].healthy /\ ~getNode(cluster'.activeNodes, url).healthy)
                  => getNode(cluster'.activeNodes, url).failureCount
                       >= cluster.activeNodes[i].failureCount]_vars

\* A node has failed three times and is unhealthy while a reconnect attempt
\* and a sweep are both under way.
C25_Witness ==
  /\ cluster.conn.pc = "trying"
  /\ cluster.sweep > 0
  /\ \E i \in 1..Len(cluster.activeNodes) :
       /\ cluster.activeNodes[i].failureCount >= UnhealthyAfter
       /\ ~cluster.activeNodes[i].healthy
  /\ \E i \in 1..Len(cluster.activeNodes) :
       /\ cluster.activeNodes[i].failureCount = 0
       /\ Len(cluster.activeNodes) < Len(Urls)

\* C26: with maxReconnectAttempts = N other than -1, a reconnect() whose
\* attempts fail gives up, emitting 'reconnectFailed', when N of its attempts
\* have failed and not before; with -1 'reconnectFailed' is never emitted.
C26_GivesUpAfterN ==
  /\ [](options.maxReconnectAttempts = -1 => emitted.reconnectFailed = 0)
  /\ [](options.maxReconnectAttempts # -1 =>
          \A f \in Frames : f.kind = "reconnect" => f.p < options.maxReconnectAttempts)
  /\ [][emitted'.reconnectFailed > emitted.reconnectFailed =>
          \E f \in Frames :
            /\ f.kind = "reconnect"
            /\ f.p + 1 = options.maxReconnectAttempts
            /\ tasks' = Finish(tasks, f)]_vars

\* C27: once resetTimeout has passed since the last failure, a connect() call
\* is no longer refused by the open breaker: it reaches the driver again.
C27_BreakerLetsConnectThrough ==
  [][(lastCall'.op = "connect" /\ circuitBreaker.isOpen
        /\ circuitBreaker.lastFailure = "elapsed")
       => lastCall'.outcome # "CircuitBreakerOpen"]_vars

\* C28: the promise of an initializeSharedClient() call, made alone or
\* while a client is being initialized, resolves only once the connect() of
\* the client it returns has succeeded.
C28_CallersJoinInitialization ==
  \A i \in 1..Len(shared.calls) :
    LET call == shared.calls[i] IN
    call.state = "resolved" => call.connectWas = "resolved"

\* C29: without a cap on the reconnect attempts and without a shutdown, once
\* a node is reachable for good (and the run's budgets are not used up), a
\* client that has lost its connection or its default channel eventually
\* holds an open connection with an open default channel again and has
\* emitted 'reconnected'.
C29_SelfHealing ==
  LET Healthy == isConnectionOpen(connection) /\ isChannelOpen(defaultChannel)
      Stable == /\ cluster.reachable
                /\ nconn < limits.conns /\ nchan < limits.chans
                /\ HasFree(tasks) /\ reconnectAttempts < limits.attempts
  IN <>[]Stable => [](~Healthy => <>(Healthy /\ emitted.reconnected > 0))

\* C30: an establishConnection() makes at most five driver connect attempts;
\* a failed attempt before the fifth leaves the breaker and the promises
\* alone; a connect() call whose five attempts all failed is never resolved,
\* and the step that ends it counts one failure and rejects its promise; the
\* failure count never grows but by one, with one connect() promise rejected.
C30_OneFailurePerConnect ==
  /\ [](\A f \in Frames :
          (f.kind = "establish" /\ f.pc = "connecting")
            => f.n < MAXIMUM_INITIAL_CONNECTION_RETRIES)
  /\ [][\A f \in Frames :
          (f.kind = "establish" /\ f.pc = "connecting" /\ nconn' = nconn
             /\ f.n + 1 < MAXIMUM_INITIAL_CONNECTION_RETRIES
             /\ tasks' # tasks /\ f \notin BagToSet(tasks'))
            => circuitBreaker' = circuitBreaker /\ promises' = promises]_vars
  /\ [][\A f \in Frames :
          (f.kind = "establish" /\ promises[f.p] = "pending"
             /\ promises'[f.p] # "pending"
             /\ (f.snap = exhausted
                   \/ (f.pc = "connecting"
                         /\ f.n + 1 = MAXIMUM_INITIAL_CONNECTION_RETRIES)))
            => /\ promises'[f.p] = "rejected"
               /\ circuitBreaker'.failures = circuitBreaker.failures + 1]_vars
  /\ [][circuitBreaker'.failures > circuitBreaker.failures
         => /\ circuitBreaker'.failures = circuitBreaker.failures + 1
            /\ \E p \in 1..Len(promises) :
                 promises[p] = "pending" /\ promises'[p] = "rejected"]_vars

\* The pcs of a reconnect() that has emitted 'reconnecting' in the iteration
\* of its loop that is running.
IterationPcs == {"sleep", "try", "defaultChannel", "prefill"}

\* C31: every 'reconnected' was preceded by the 'reconnecting' of the same
\* loop iteration (the iterations that are running and those that succeeded
\* have each emitted 'reconnecting'); the step that emits 'reconnected' emits
\* it once, ends the reconnect() whose setupChannels() returned, adds one to
\* metrics.reconnections and leaves the attempt counter at 0; and a
\* reconnect() whose setupChannels() returned emits it.
C31_ReconnectedInOrder ==
  /\ [](emitted.reconnecting >=
          emitted.reconnected
            + BagCardinality([f \in {g \in Frames : g.kind = "reconnect"
                                                     /\ g.pc \in IterationPcs}
                                |-> tasks[f]]))
  /\ [](emitted.reconnections = emitted.reconnected)
  /\ [][emitted'.reconnected # emitted.reconnected
         => /\ emitted'.reconnected = emitted.reconnected + 1
            /\ emitted'.reconnecting = emitted.reconnecting
            /\ emitted'.reconnections = emitted.reconnections + 1
            /\ reconnectAttempts' = 0
            /\ \E f \in Frames :
                 /\ f.kind = "reconnect" /\ f.pc \in {"defaultChannel", "prefill"}
                 /\ tasks' = Finish(tasks, f)]_vars
  /\ [][\A f \in Frames :
          (f.kind = "reconnect" /\ f.pc = "prefill" /\ nchan' = nchan + 1
             /\ f.n + 1 >= options.maxChannels /\ tasks' = Finish(tasks, f))
            => emitted'.reconnected = emitted.reconnected + 1]_vars

\* A reconnect() succeeded after an attempt of its loop had failed.
C31_Witness ==
  /\ emitted.reconnected = 1 /\ emitted.reconnecting >= 2
  /\ reconnectAttempts = 0 /\ isConnectionOpen(connection)

\* C32: the channel-recovery sweep never runs twice at once. A run of
\* checkAndRecoverChannels() awaits at most one createConfirmChannel() for
\* the default channel, so two such pending calls are two runs.
C32_SweepNeverOverlaps ==
  BagCardinality([f \in {g \in Frames : g.kind = "sweep" /\ g.pc = "sw_default"}
                    |-> tasks[f]]) <= 1

\* C33: the rejection of a consumer handler, on an open connection with an
\* open default channel, starts no reconnect().
C33_HandlerFailureStartsNoReconnect ==
  [][\A m \in 1..Len(deliveries) :
       (/\ deliveries[m].events = <<>>
        /\ deliveries'[m].events = <<"rejected">>
        /\ isConnectionOpen(connection) /\ isChannelOpen(defaultChannel))
         => /\ Count(tasks', {"reconnect"}) = Count(tasks, {"reconnect"})
            /\ reconnecting' = reconnecting]_vars

\* C34: while the getChannel() call of one caller waits on the full pool and
\* goes on waiting, no call that another caller makes after it obtains a
\* channel.
C34_WaitersServedFirst ==
  [][\A c \in Callers : \A f \in Frames :
       (/\ f.kind = "getChannel" /\ f.pc = "gc_wait" /\ f.p # c
        /\ f \in BagToSet(tasks')
        /\ held[c] = {} /\ ~Requesting(c))
         => held'[c] = {}]_vars

\* C35: when the promise of a connect() call resolves, the client holds an
\* open connection and an open default channel.
C35_ResolvedMeansConnected ==
  [][\A p \in 1..Len(promises') :
       (/\ p <= Len(promises) => promises[p] = "pending"
        /\ promises'[p] = "resolved")
         => /\ connection' # 0 /\ connection' \in connOpen'
            /\ defaultChannel' # 0 /\ defaultChannel' \notin chanClosed']_vars

\* C36: with the round-robin strategy the cursor is an index of urls, and
\* no connect() is rejected because getNextUrl() found no url at the cursor.
C36_CursorIsValidIndex ==
  cluster.failoverStrategy = "round-robin"
    => /\ cluster.currentUrlIndex \in 0..(Len(Urls) - 1)
       /\ cluster.conn.url # "invalid"

\* C37: every channel of the in-use set is a member of the pool's list.
C37_InUseWithinPool == inUse \subseteq Members(channels)

\* C38: when no caller holds a lease (every channel that getChannel()
\* returned has been released) no channel of the pool is marked in use.
C38_InUseIffLeased ==
  (\A c \in Callers : held[c] = {}) => inUse \cap Members(channels) = {}

\* C39: every channel of the pool was created on the connection the client
\* holds.
C39_PoolOnCurrentConnection ==
  connection # 0 => \A ch \in Members(channels) : chanConn[ch] = connection

\* C40: a publish() whose promise was rejected throws after finitely many
\* steps, also when the broker refuses every connection for ever and
\* maxReconnectAttempts = -1: the rejection does not wait for a reconnect cycle.
C40_FailedPublishRejects ==
  \A i \in 1..RejectMaxPublishes :
    (i <= Len(publishes) /\ publishes[i].state = "rejected")
      ~> (i <= Len(publishes) /\ publishes[i].call = "rejected")

====
